---- MODULE Spec2Model ----
(***************************************************************************)
(* A model of catnip's pattern matching engine (src/src/pattern_matcher.rs):*)
(* PatternMatcher::new classifies every trimmed pattern into one of four    *)
(* buckets, matches_path answers a path against the buckets, and            *)
(* match_parts is the backtracking glob engine.                             *)
(*                                                                          *)
(* A Rust &str is modelled as its UTF-8 bytes: a sequence of one-byte       *)
(* strings.  ASCII characters are one byte ("a", ".", "/", "*", "?", " ");  *)
(* the two-byte character e-acute is the lead byte "C3" followed by the     *)
(* continuation byte "A9".  Byte offsets (path_pos) are 0-based as in the   *)
(* code; slicing a str off a character boundary panics, and an operation    *)
(* that returns bool in the code returns "true", "false" or "panic" here.   *)
(*                                                                          *)
(* Around the matcher the module models, each under a specification of its  *)
(* own: the two file collectors (SpecCollect: core/file_collector.rs,       *)
(* SpecRecursive: file_processor.rs), the two renderers of the bundle       *)
(* (SpecRender: core/content_processor.rs and file_processor.rs) and the    *)
(* search-and-replace patcher (SpecPatch: patch.rs), the line-range        *)
(* patcher (SpecLinePatch: main.rs) and the glob parser on its own          *)
(* (SpecParse).  A specification leaves the variables of the other parts    *)
(* at their idle values.                                                    *)
(***************************************************************************)
EXTENDS Integers, Sequences, FiniteSets, TLC

\* the matcher under test: PatternMatcher::new, then matches_path
VARIABLES patterns, matcher, path, result, pc

\* the file collectors (core/file_collector.rs, file_processor.rs): the file
\* system they walk, their arguments, their locals and what they touched
VARIABLES tree, paths, additional_excludes, additional_includes, max_size_mb,
          exclude_patterns, include_patterns, exclude_matcher,
          include_matcher, max_size_bytes,
          root_idx, frames, all_files, touched, cpc

\* the renderers (core/content_processor.rs, file_processor.rs): the file list
\* handed in, the files that cannot be read, the bundle and where it went
VARIABLES files, unreadable, output_file, output, written, rpc

\* the search-and-replace patcher (patch.rs): the file system before the call
\* and now, the arguments of process_file_update, its locals and its result
VARIABLES fs_before, fs, file_update, dry_run, create_backup,
          updated_content, applied_updates, returned, ppc

\* the line-range patcher (main.rs) works on the same file system and
\* arguments; its locals are the lines of the file and the sorted updates
VARIABLES lines, sorted_updates

matcher_vars == <<patterns, matcher, path, result, pc>>

render_vars == <<files, unreadable, output_file, output, written, rpc>>

collector_vars ==
    <<tree, paths, additional_excludes, additional_includes, max_size_mb,
      exclude_patterns, include_patterns, exclude_matcher, include_matcher,
      max_size_bytes, root_idx, frames, all_files, touched, cpc>>

line_locals == <<lines, sorted_updates>>

patch_vars ==
    <<fs_before, fs, file_update, dry_run, create_backup,
      updated_content, applied_updates, returned, ppc, line_locals>>

vars == <<matcher_vars, collector_vars, render_vars, patch_vars>>

(***************************************************************************)
(* Bounds of the enumerated inputs.                                         *)
(***************************************************************************)
MaxPatLen == 3

MaxPathLen == 3

(***************************************************************************)
(* str primitives of the Rust standard library.                             *)
(***************************************************************************)
IsContinuation(b) == b = "A9"

CharWidth(b) == IF b = "C3" THEN 2 ELSE 1

\* str::is_char_boundary(i), i a 0-based byte offset
IsCharBoundary(s, i) ==
    \/ i = 0
    \/ i = Len(s)
    \/ (i > 0 /\ i < Len(s) /\ ~IsContinuation(s[i + 1]))

\* &s[a..b] where both ends are character boundaries
Slice(s, a, b) == SubSeq(s, a + 1, b)

\* str::contains(char) for a one-byte char
Contains(s, b) == \E i \in 1..Len(s) : s[i] = b

\* s[pos..].starts_with(lit)
StartsWithAt(s, pos, lit) ==
    /\ pos + Len(lit) <= Len(s)
    /\ \A i \in 1..Len(lit) : s[pos + i] = lit[i]

StartsWith(s, lit) == StartsWithAt(s, 0, lit)

EndsWith(s, lit) ==
    /\ Len(lit) <= Len(s)
    /\ StartsWithAt(s, Len(s) - Len(lit), lit)

\* str::strip_prefix / strip_suffix: an Option, [some, val]
\* a u64 written as hi * 2^44 + lo, lo below 2^44: U64(0, 1) is 1 and
\* U64(1, 0) is 2^44, the least number whose product with 2^20 is 2^64
U64(hi, lo) == [hi |-> hi, lo |-> lo]

None == [some |-> FALSE, val |-> <<>>]

Some(v) == [some |-> TRUE, val |-> v]

strip_prefix(s, lit) ==
    IF StartsWith(s, lit) THEN Some(Slice(s, Len(lit), Len(s))) ELSE None

strip_suffix(s, lit) ==
    IF EndsWith(s, lit) THEN Some(Slice(s, 0, Len(s) - Len(lit))) ELSE None

unwrap_or(opt, dflt) == IF opt.some THEN opt.val ELSE dflt

IsWhitespace(b) == b = " "

\* str::trim: drops leading and trailing whitespace
RECURSIVE trim_start(_)
trim_start(s) ==
    IF s # <<>> /\ IsWhitespace(Head(s)) THEN trim_start(Tail(s)) ELSE s

RECURSIVE trim_end(_)
trim_end(s) ==
    IF s # <<>> /\ IsWhitespace(s[Len(s)])
    THEN trim_end(SubSeq(s, 1, Len(s) - 1))
    ELSE s

trim(s) == trim_end(trim_start(s))

\* the byte offset at which character number k (0-based) starts, scanning from
\* offset i; Len(s) when there is no such character
RECURSIVE CharOffset(_, _, _)
CharOffset(s, k, i) ==
    IF i >= Len(s) THEN Len(s)
    ELSE IF IsContinuation(s[i + 1]) THEN CharOffset(s, k, i + 1)
    ELSE IF k = 0 THEN i
    ELSE CharOffset(s, k - 1, i + 1)

\* s.chars().nth(k).unwrap_or('\0'): a character is named by its lead byte
chars_nth_or_nul(s, k) ==
    LET off == CharOffset(s, k, 0)
    IN  IF off < Len(s) THEN s[off + 1] ELSE "NUL"

(***************************************************************************)
(* std::path::Path, for '/'-separated paths.                                *)
(***************************************************************************)
\* the '/'-separated pieces of s, empty pieces included
RECURSIVE SplitSlash(_, _, _)
SplitSlash(s, i, cur) ==
    IF i > Len(s) THEN <<cur>>
    ELSE IF s[i] = "/" THEN <<cur>> \o SplitSlash(s, i + 1, <<>>)
    ELSE SplitSlash(s, i + 1, Append(cur, s[i]))

Dot == <<".">>

DotDot == <<".", ".">>

RootDir == <<"/">>

\* Path::components, each as its as_os_str(): a leading '/' is RootDir,
\* empty pieces and '.' pieces are normalised away (a leading '.' is kept
\* as CurDir), '..' is ParentDir, every other piece is Normal.
RECURSIVE KeepComponents(_, _, _)
KeepComponents(segs, k, has_root) ==
    IF k > Len(segs) THEN <<>>
    ELSE LET seg == segs[k]
             keep == /\ seg # <<>>
                     /\ (seg = Dot => (k = 1 /\ ~has_root))
         IN  (IF keep THEN <<seg>> ELSE <<>>)
                 \o KeepComponents(segs, k + 1, has_root)

components(p) ==
    LET has_root == StartsWith(p, RootDir)
    IN  (IF has_root THEN <<RootDir>> ELSE <<>>)
            \o KeepComponents(SplitSlash(p, 1, <<>>), 1, has_root)

IsNormal(c) == c # RootDir /\ c # Dot /\ c # DotDot

\* Path::file_name: the last component when it is Normal
file_name(p) ==
    LET cs == components(p)
    IN  IF cs # <<>> /\ IsNormal(cs[Len(cs)]) THEN Some(cs[Len(cs)]) ELSE None

\* the offset (1-based) of the last '.' of name, 0 when there is none
RECURSIVE LastDot(_, _)
LastDot(name, i) ==
    IF i = 0 THEN 0
    ELSE IF name[i] = "." THEN i
    ELSE LastDot(name, i - 1)

\* Path::extension: rsplit_file_at_dot on the file name; none without a '.',
\* and none when nothing precedes the last '.'
rsplit_extension(name) ==
    LET d == LastDot(name, Len(name))
    IN  IF name = DotDot \/ d = 0 \/ d = 1 THEN None
        ELSE Some(SubSeq(name, d + 1, Len(name)))

extension(p) ==
    LET f == file_name(p)
    IN  IF f.some THEN rsplit_extension(f.val) ELSE None

(***************************************************************************)
(* PatternMatcher: the compiler.                                            *)
(***************************************************************************)
Literal(text) == [kind |-> "Literal", text |-> text]

Star == [kind |-> "Star", text |-> <<>>]

DoubleStar == [kind |-> "DoubleStar", text |-> <<>>]

Question == [kind |-> "Question", text |-> <<>>]

\* pushes the pending literal run even when it is empty
flushes_empty_literal(parts, current_literal) ==
    Append(parts, Literal(current_literal))

\* the pending literal run is pushed when it is not empty
FlushLiteral(parts, current_literal) ==
    IF current_literal # <<>> THEN Append(parts, Literal(current_literal))
    ELSE parts

\* the scan of parse_glob_pattern from offset i (1-based) on; '*' and '?' are
\* one-byte characters, every other byte joins the pending literal
RECURSIVE ParseFrom(_, _, _, _)
ParseFrom(pattern, i, current_literal, parts) ==
    IF i > Len(pattern) THEN FlushLiteral(parts, current_literal)
    ELSE IF pattern[i] = "*"
    THEN IF i < Len(pattern) /\ pattern[i + 1] = "*"
         THEN ParseFrom(pattern, i + 2, <<>>,
                        Append(FlushLiteral(parts, current_literal), DoubleStar))
         ELSE ParseFrom(pattern, i + 1, <<>>,
                        Append(FlushLiteral(parts, current_literal), Star))
    ELSE IF pattern[i] = "?"
    THEN ParseFrom(pattern, i + 1, <<>>,
                   Append(FlushLiteral(parts, current_literal), Question))
    ELSE ParseFrom(pattern, i + 1, Append(current_literal, pattern[i]), parts)

parse_glob_pattern(pattern) ==
    [pattern |-> pattern, parts |-> ParseFrom(pattern, 1, <<>>, <<>>)]

NoWildcardOrSlash(s) ==
    ~Contains(s, "*") /\ ~Contains(s, "?") /\ ~Contains(s, "/")

\* the condition of the extension rule
IsExtensionPattern(pattern) ==
    LET ext == strip_prefix(pattern, <<"*", ".">>)
    IN  ext.some /\ NoWildcardOrSlash(ext.val)

\* the condition of the exact filename rule
IsFilenamePattern(pattern) == NoWildcardOrSlash(pattern)

clean_pattern(pattern) == unwrap_or(strip_suffix(pattern, <<"/", "*">>), pattern)

\* the condition of the directory rule
IsDirectoryPattern(pattern) ==
    LET clean == clean_pattern(pattern)
    IN  NoWildcardOrSlash(clean) /\ ~Contains(clean, ".")

\* the bucket categorize_pattern inserts into: the first rule that applies
BucketOf(pattern) ==
    IF IsExtensionPattern(pattern) THEN "extension"
    ELSE IF IsFilenamePattern(pattern) THEN "filename"
    ELSE IF IsDirectoryPattern(pattern) THEN "directory"
    ELSE "glob"

EmptyMatcher ==
    [exact_filenames |-> {}, exact_extensions |-> {},
     exact_directories |-> {}, glob_patterns |-> <<>>]

categorize_pattern(pattern, m) ==
    LET bucket == BucketOf(pattern)
    IN  IF bucket = "extension"
        THEN [m EXCEPT !.exact_extensions =
                  @ \cup {strip_prefix(pattern, <<"*", ".">>).val}]
        ELSE IF bucket = "filename"
        THEN [m EXCEPT !.exact_filenames = @ \cup {pattern}]
        ELSE IF bucket = "directory"
        THEN [m EXCEPT !.exact_directories = @ \cup {clean_pattern(pattern)}]
        ELSE [m EXCEPT !.glob_patterns = Append(@, parse_glob_pattern(pattern))]

\* PatternMatcher::new: every pattern is trimmed and categorized, in order
RECURSIVE CategorizeFrom(_, _, _)
CategorizeFrom(pats, i, m) ==
    IF i > Len(pats) THEN m
    ELSE CategorizeFrom(pats, i + 1, categorize_pattern(trim(pats[i]), m))

PatternMatcher_new(pats) == CategorizeFrom(pats, 1, EmptyMatcher)

(***************************************************************************)
(* PatternMatcher: the glob engine.                                         *)
(***************************************************************************)
AllRemainingAreStars(parts, part_idx) ==
    \A k \in (part_idx + 1)..Len(parts) : parts[k].kind \in {"Star", "DoubleStar"}

Bool(b) == IF b THEN "true" ELSE "false"

\* the Question arm's test of the character at path_pos: the code reads
\* path.chars().nth(path_pos), the character whose NUMBER is the byte offset
QuestionAccepts(p, path_pos) ==
    path_pos < Len(p) /\ chars_nth_or_nul(p, path_pos) # "/"

\* path[path_pos..].char_indices().nth(1), or path.len()
next_char_boundary(p, path_pos) ==
    LET w == CharWidth(p[path_pos + 1])
    IN  IF path_pos + w < Len(p) THEN path_pos + w ELSE Len(p)

StarNeverStops(p, path_pos, i) == FALSE

\* the Star loop leaves at the first i whose slice holds a separator
StarStopsAt(p, path_pos, i) == Contains(Slice(p, path_pos, i), "/")

RECURSIVE match_parts(_, _, _, _)
RECURSIVE StarLoop(_, _, _, _, _)
RECURSIVE DoubleStarLoop(_, _, _, _, _)

\* for i in path_pos + 1..=path.len() of the Star arm, from i on
StarLoop(p, parts, path_pos, part_idx, i) ==
    IF i > Len(p) THEN "false"
    ELSE IF ~IsCharBoundary(p, path_pos) \/ ~IsCharBoundary(p, i) THEN "panic"
    ELSE IF StarStopsAt(p, path_pos, i) THEN "false"
    ELSE LET r == match_parts(p, parts, i, part_idx + 1)
         IN  IF r = "false" THEN StarLoop(p, parts, path_pos, part_idx, i + 1)
             ELSE r

\* for i in path_pos + 1..=path.len() of the DoubleStar arm, from i on
DoubleStarLoop(p, parts, path_pos, part_idx, i) ==
    IF i > Len(p) THEN "false"
    ELSE LET r == match_parts(p, parts, i, part_idx + 1)
         IN  IF r = "false" THEN DoubleStarLoop(p, parts, path_pos, part_idx, i + 1)
             ELSE r

match_parts(p, parts, path_pos, part_idx) ==
    IF part_idx >= Len(parts) THEN Bool(path_pos = Len(p))
    ELSE IF path_pos >= Len(p) THEN Bool(AllRemainingAreStars(parts, part_idx))
    ELSE LET part == parts[part_idx + 1]
         IN  IF part.kind = "Literal"
             THEN IF ~IsCharBoundary(p, path_pos) THEN "panic"
                  ELSE IF StartsWithAt(p, path_pos, part.text)
                  THEN match_parts(p, parts, path_pos + Len(part.text), part_idx + 1)
                  ELSE "false"
             ELSE IF part.kind = "Question"
             THEN IF ~IsCharBoundary(p, path_pos) THEN "panic"
                  ELSE IF QuestionAccepts(p, path_pos)
                  THEN match_parts(p, parts, next_char_boundary(p, path_pos),
                                   part_idx + 1)
                  ELSE "false"
             ELSE LET zero == match_parts(p, parts, path_pos, part_idx + 1)
                  IN  IF zero # "false" THEN zero
                      ELSE IF part.kind = "Star"
                      THEN StarLoop(p, parts, path_pos, part_idx, path_pos + 1)
                      ELSE DoubleStarLoop(p, parts, path_pos, part_idx, path_pos + 1)

matches_glob(p, glob) == match_parts(p, glob.parts, 0, 0)

\* the loop over glob_patterns, in registration order, from index k on
RECURSIVE GlobsFrom(_, _, _)
GlobsFrom(p, globs, k) ==
    IF k > Len(globs) THEN "false"
    ELSE LET r == matches_glob(p, globs[k])
         IN  IF r = "false" THEN GlobsFrom(p, globs, k + 1) ELSE r

(***************************************************************************)
(* PatternMatcher::matches_path.                                            *)
(***************************************************************************)
filename_is_whole_path(p) == p

\* path.file_name().map(to_string_lossy).unwrap_or_default()
filename(p) == unwrap_or(file_name(p), <<>>)

ExtensionHit(m, p) ==
    LET ext == extension(p)
    IN  ext.some /\ ext.val \in m.exact_extensions

DirectoryHit(m, p) ==
    LET cs == components(p)
    IN  \E k \in 1..Len(cs) : cs[k] \in m.exact_directories

matches_path(m, p) ==
    IF filename(p) \in m.exact_filenames THEN "true"
    ELSE IF ExtensionHit(m, p) THEN "true"
    ELSE IF DirectoryHit(m, p) THEN "true"
    ELSE GlobsFrom(p, m.glob_patterns, 1)

(***************************************************************************)
(* The inputs: every string of bounded length over a small alphabet, and    *)
(* the patterns and paths of the repository's tests.                        *)
(***************************************************************************)
\* the two-byte character U+00E9
EAcute == <<"C3", "A9">>

PatternChars == {<<"a">>, <<".">>, <<"*">>, <<"?">>, <<"/">>, EAcute}

PathChars == {<<"a">>, <<".">>, <<"/">>, EAcute}

RECURSIVE StringsOfLen(_, _)
StringsOfLen(alphabet, n) ==
    IF n = 0 THEN {<<>>}
    ELSE {s \o c : s \in StringsOfLen(alphabet, n - 1), c \in alphabet}

StringsUpTo(alphabet, n) == UNION {StringsOfLen(alphabet, k) : k \in 0..n}

\* a path as a directory walk yields it: names joined by single separators,
\* no name empty, '.' or '..'
IsWalkedPath(p) ==
    LET segs == SplitSlash(p, 1, <<>>)
    IN  \A k \in 1..Len(segs) : segs[k] # <<>> /\ segs[k] # Dot /\ segs[k] # DotDot

\* "target"
Pat_target == <<"t", "a", "r", "g", "e", "t">>

\* "target/*"
Pat_target_all == <<"t", "a", "r", "g", "e", "t", "/", "*">>

\* "src/*"
Pat_src_all == <<"s", "r", "c", "/", "*">>

\* "src/**/*"
Pat_src_deep_all == <<"s", "r", "c", "/", "*", "*", "/", "*">>

\* "*.rs"
Pat_rs == <<"*", ".", "r", "s">>

\* " *.rs "
Pat_rs_padded == <<" ", "*", ".", "r", "s", " ">>

\* "*.RS"
Pat_RS == <<"*", ".", "R", "S">>

\* "*.gitignore"
Pat_gitignore == <<"*", ".", "g", "i", "t", "i", "g", "n", "o", "r", "e">>

\* "Cargo.toml"
Pat_Cargo_toml == <<"C", "a", "r", "g", "o", ".", "t", "o", "m", "l">>

\* "Cargo.toml "
Pat_Cargo_toml_padded ==
    <<"C", "a", "r", "g", "o", ".", "t", "o", "m", "l", " ">>

\* "src/*.rs"
Pat_src_rs == <<"s", "r", "c", "/", "*", ".", "r", "s">>

\* "src/**/*.rs"
Pat_src_deep_rs == <<"s", "r", "c", "/", "*", "*", "/", "*", ".", "r", "s">>

\* "**/*.test.js"
Pat_deep_test_js ==
    <<"*", "*", "/", "*", ".", "t", "e", "s", "t", ".", "j", "s">>

\* "**/target/**"
Pat_deep_target ==
    <<"*", "*", "/", "t", "a", "r", "g", "e", "t", "/", "*", "*">>

\* "*.?s"
Pat_q_s == <<"*", ".", "?", "s">>

\* "*"
Pat_star == <<"*">>

\* "**"
Pat_doublestar == <<"*", "*">>

\* "?"
Pat_question == <<"?">>

\* ""
Pat_empty == <<>>

TestPatterns ==
    {Pat_target,
     Pat_target_all,
     Pat_src_all,
     Pat_src_deep_all,
     Pat_rs,
     Pat_rs_padded,
     Pat_RS,
     Pat_gitignore,
     Pat_Cargo_toml,
     Pat_Cargo_toml_padded,
     Pat_src_rs,
     Pat_src_deep_rs,
     Pat_deep_test_js,
     Pat_deep_target,
     Pat_q_s,
     Pat_star,
     Pat_doublestar,
     Pat_question,
     Pat_empty}

\* "project/target/debug/build"
Path_project_target_debug_build ==
    <<"p", "r", "o", "j", "e", "c", "t", "/", "t", "a", "r", "g", "e", "t",
      "/", "d", "e", "b", "u", "g", "/", "b", "u", "i", "l", "d">>

\* "target/debug/main"
Path_target_debug_main ==
    <<"t", "a", "r", "g", "e", "t", "/", "d", "e", "b", "u", "g", "/", "m",
      "a", "i", "n">>

\* "src/target/file"
Path_src_target_file ==
    <<"s", "r", "c", "/", "t", "a", "r", "g", "e", "t", "/", "f", "i", "l",
      "e">>

\* "target"
Path_target == <<"t", "a", "r", "g", "e", "t">>

\* "src/main.rs"
Path_src_main_rs == <<"s", "r", "c", "/", "m", "a", "i", "n", ".", "r", "s">>

\* "src/utils/helper.rs"
Path_src_utils_helper_rs ==
    <<"s", "r", "c", "/", "u", "t", "i", "l", "s", "/", "h", "e", "l", "p",
      "e", "r", ".", "r", "s">>

\* "src/nested/deep.rs"
Path_src_nested_deep_rs ==
    <<"s", "r", "c", "/", "n", "e", "s", "t", "e", "d", "/", "d", "e", "e",
      "p", ".", "r", "s">>

\* "tests/main.rs"
Path_tests_main_rs ==
    <<"t", "e", "s", "t", "s", "/", "m", "a", "i", "n", ".", "r", "s">>

\* "main.rs"
Path_main_rs == <<"m", "a", "i", "n", ".", "r", "s">>

\* "main.RS"
Path_main_RS == <<"m", "a", "i", "n", ".", "R", "S">>

\* "main.js"
Path_main_js == <<"m", "a", "i", "n", ".", "j", "s">>

\* "main.ts"
Path_main_ts == <<"m", "a", "i", "n", ".", "t", "s">>

\* "main.txt"
Path_main_txt == <<"m", "a", "i", "n", ".", "t", "x", "t">>

\* "main.s"
Path_main_s == <<"m", "a", "i", "n", ".", "s">>

\* "main.py"
Path_main_py == <<"m", "a", "i", "n", ".", "p", "y">>

\* "app.test.js"
Path_app_test_js == <<"a", "p", "p", ".", "t", "e", "s", "t", ".", "j", "s">>

\* "src/app.test.js"
Path_src_app_test_js ==
    <<"s", "r", "c", "/", "a", "p", "p", ".", "t", "e", "s", "t", ".", "j",
      "s">>

\* "target/debug"
Path_target_debug ==
    <<"t", "a", "r", "g", "e", "t", "/", "d", "e", "b", "u", "g">>

\* "Cargo.toml"
Path_Cargo_toml == <<"C", "a", "r", "g", "o", ".", "t", "o", "m", "l">>

\* "project/Cargo.toml"
Path_project_Cargo_toml ==
    <<"p", "r", "o", "j", "e", "c", "t", "/", "C", "a", "r", "g", "o", ".",
      "t", "o", "m", "l">>

\* "cargo.toml"
Path_cargo_toml == <<"c", "a", "r", "g", "o", ".", "t", "o", "m", "l">>

\* "lib.rs"
Path_lib_rs == <<"l", "i", "b", ".", "r", "s">>

\* ".gitignore"
Path_gitignore == <<".", "g", "i", "t", "i", "g", "n", "o", "r", "e">>

\* "file"
Path_file == <<"f", "i", "l", "e">>

\* "file.ext"
Path_file_ext == <<"f", "i", "l", "e", ".", "e", "x", "t">>

\* "any/path/file"
Path_any_path_file ==
    <<"a", "n", "y", "/", "p", "a", "t", "h", "/", "f", "i", "l", "e">>

\* "1"
Path_1 == <<"1">>

\* "ab"
Path_ab == <<"a", "b">>

\* "src/é.rs"
Path_src_e_rs == <<"s", "r", "c", "/", "C3", "A9", ".", "r", "s">>

\* "a/a/a"
Path_a_a_a == <<"a", "/", "a", "/", "a">>

\* "a/é/a.a"
Path_a_e_a_a == <<"a", "/", "C3", "A9", "/", "a", ".", "a">>

TestPaths ==
    {Path_a_a_a,
     Path_a_e_a_a,
     Path_project_target_debug_build,
     Path_target_debug_main,
     Path_src_target_file,
     Path_target,
     Path_src_main_rs,
     Path_src_utils_helper_rs,
     Path_src_nested_deep_rs,
     Path_tests_main_rs,
     Path_main_rs,
     Path_main_RS,
     Path_main_js,
     Path_main_ts,
     Path_main_txt,
     Path_main_s,
     Path_main_py,
     Path_app_test_js,
     Path_src_app_test_js,
     Path_target_debug,
     Path_Cargo_toml,
     Path_project_Cargo_toml,
     Path_cargo_toml,
     Path_lib_rs,
     Path_gitignore,
     Path_file,
     Path_file_ext,
     Path_any_path_file,
     Path_1,
     Path_ab,
     Path_src_e_rs}

\* "*.a"
Pair_ext == <<"*", ".", "a">>

\* "a.a"
Pair_file == <<"a", ".", "a">>

\* "a"
Pair_name == <<"a">>

\* "a/*"
Pair_dir == <<"a", "/", "*">>

\* "*/a"
Pair_star_dir == <<"*", "/", "a">>

\* "é/a"
Pair_lit == <<"C3", "A9", "/", "a">>

\* "?"
Pair_q == <<"?">>

\* "**"
Pair_deep == <<"*", "*">>

\* ".a"
Pair_dotfile == <<".", "a">>

\* patterns of every bucket, for matchers built from two patterns
PairPatterns ==
    {Pair_dotfile,
     Pair_ext,
     Pair_file,
     Pair_name,
     Pair_dir,
     Pair_star_dir,
     Pair_lit,
     Pair_q,
     Pair_deep}

PatternDomain == StringsUpTo(PatternChars, MaxPatLen) \cup TestPatterns

PathDomain ==
    {p \in StringsUpTo(PathChars, MaxPathLen) : IsWalkedPath(p)} \cup TestPaths

\* the pattern list of test_edge_cases
EdgePatterns == <<Pat_star, Pat_doublestar, Pat_question, Pat_empty>>

PatternLists ==
    {<<a>> : a \in PatternDomain}
        \cup {<<a, b>> : a \in PairPatterns, b \in PairPatterns}
        \cup {EdgePatterns}

(***************************************************************************)
(* The state machine: a pattern list is given, PatternMatcher::new builds   *)
(* the matcher, matches_path answers one path.                              *)
(***************************************************************************)
\* no collector is running
NoTouch == [visited |-> {}, statted |-> {}, listed |-> {}, read |-> {}]

CollectorIdle ==
    /\ tree = <<>>
    /\ paths = <<>>
    /\ additional_excludes = <<>>
    /\ additional_includes = <<>>
    /\ max_size_mb = U64(0, 0)
    /\ exclude_patterns = <<>>
    /\ include_patterns = <<>>
    /\ exclude_matcher = EmptyMatcher
    /\ include_matcher = EmptyMatcher
    /\ max_size_bytes = 0
    /\ root_idx = 0
    /\ frames = <<>>
    /\ all_files = <<>>
    /\ touched = NoTouch
    /\ cpc = "idle"

\* no renderer is running
RenderIdle ==
    /\ files = <<>>
    /\ unreadable = {}
    /\ output_file = None
    /\ output = <<>>
    /\ written = None
    /\ rpc = "idle"

\* no patch is running
PatchIdle ==
    /\ fs_before = [dirs |-> {}, files |-> <<>>]
    /\ fs = [dirs |-> {}, files |-> <<>>]
    /\ file_update = [path |-> <<>>, updates |-> <<>>]
    /\ dry_run = FALSE
    /\ create_backup = FALSE
    /\ updated_content = <<>>
    /\ applied_updates = 0
    /\ returned = None
    /\ lines = <<>>
    /\ sorted_updates = <<>>
    /\ ppc = "idle"

Init ==
    /\ patterns \in PatternLists
    /\ matcher = EmptyMatcher
    /\ path = <<>>
    /\ result = "none"
    /\ pc = "init"
    /\ CollectorIdle
    /\ RenderIdle
    /\ PatchIdle

New ==
    /\ pc = "init"
    /\ matcher' = PatternMatcher_new(patterns)
    /\ pc' = "built"
    /\ UNCHANGED <<patterns, path, result>>
    /\ UNCHANGED <<collector_vars, render_vars, patch_vars>>

MatchesPath ==
    /\ pc = "built"
    /\ \E p \in PathDomain :
          /\ path' = p
          /\ result' = matches_path(matcher, p)
    /\ pc' = "done"
    /\ UNCHANGED <<patterns, matcher>>
    /\ UNCHANGED <<collector_vars, render_vars, patch_vars>>

Next == New \/ MatchesPath

Spec == Init /\ [][Next]_vars

(***************************************************************************)
(* What the claims speak of, stated on the path string itself.              *)
(***************************************************************************)
SlashStar == <<"/", "*">>

Done == pc = "done"

Single == Len(patterns) = 1

\* a directory name: not empty, none of * ? / . and no blank
IsBareDirName(d) ==
    d # <<>> /\ NoWildcardOrSlash(d) /\ ~Contains(d, ".") /\ ~Contains(d, " ")

\* d is, from end to end, one '/'-separated component of p
IsWholeComponent(d, p) ==
    \E i \in 0..Len(p) :
        /\ StartsWithAt(p, i, d)
        /\ (i = 0 \/ p[i] = "/")
        /\ (i + Len(d) = Len(p) \/ p[i + Len(d) + 1] = "/")

\* name is what follows the last '/' of p (all of p when it has none)
IsFinalComponent(name, p) ==
    /\ ~Contains(name, "/")
    /\ EndsWith(p, name)
    /\ (Len(name) = Len(p) \/ p[Len(p) - Len(name)] = "/")

\* e is what follows the last '.' of the final component of p
IsExtensionOf(e, p) ==
    /\ ~Contains(e, ".")
    /\ ~Contains(e, "/")
    /\ EndsWith(p, <<".">> \o e)

\* p is a file directly inside directory d: d, one separator, one name
IsDirectChildOf(p, d) ==
    /\ StartsWith(p, d \o <<"/">>)
    /\ Len(p) > Len(d) + 1
    /\ ~Contains(Slice(p, Len(d) + 1, Len(p)), "/")

\* p lies below directory d, at any depth
IsBelow(p, d) == StartsWith(p, d \o <<"/">>) /\ Len(p) > Len(d) + 1

\* the characters of a string, each as its bytes
RECURSIVE ToChars(_)
ToChars(s) ==
    IF s = <<>> THEN <<>>
    ELSE LET w == CharWidth(Head(s))
         IN  <<SubSeq(s, 1, w)>> \o ToChars(SubSeq(s, w + 1, Len(s)))

NoSeparatorIn(cs, from, to) == \A k \in (from + 1)..to : cs[k] # <<"/">>

\* The glob language: the characters cs[pos+1..] split into consecutive
\* pieces, one per part from parts[k] on; a Literal piece is its text, a Star
\* piece a run without '/', a DoubleStar piece any run, a Question piece one
\* character, which must not be '/' when question_excludes_separator.
RECURSIVE GlobSplits(_, _, _, _, _)
GlobSplits(parts, k, cs, pos, question_excludes_separator) ==
    IF k > Len(parts) THEN pos = Len(cs)
    ELSE IF parts[k].kind = "Literal"
    THEN LET lit == ToChars(parts[k].text)
         IN  /\ pos + Len(lit) <= Len(cs)
             /\ \A j \in 1..Len(lit) : cs[pos + j] = lit[j]
             /\ GlobSplits(parts, k + 1, cs, pos + Len(lit),
                           question_excludes_separator)
    ELSE IF parts[k].kind = "Question"
    THEN /\ pos < Len(cs)
         /\ (question_excludes_separator => cs[pos + 1] # <<"/">>)
         /\ GlobSplits(parts, k + 1, cs, pos + 1, question_excludes_separator)
    ELSE \E n \in 0..(Len(cs) - pos) :
            /\ (parts[k].kind = "Star" => NoSeparatorIn(cs, pos, pos + n))
            /\ GlobSplits(parts, k + 1, cs, pos + n, question_excludes_separator)

\* the matcher holds one compiled glob, compiled from the one pattern given
SingleGlob == Single /\ Len(matcher.glob_patterns) = 1

TheParts == matcher.glob_patterns[1].parts

\* matches_path of the matcher PatternMatcher::new builds from pats
MatchesOf(pats, p) == matches_path(PatternMatcher_new(pats), p)

(***************************************************************************)
(* The claims.                                                              *)
(***************************************************************************)

\* C1: for a bare directory name d (none of * ? / .) and every path p, the
\* matcher built from [d] and the matcher built from [d + "/*"] give the same
\* answer on p.
C1_BareAndSuffixedAgree ==
    (Done /\ Single /\ IsBareDirName(patterns[1]))
        => result = MatchesOf(<<patterns[1] \o SlashStar>>, path)

\* C2: a matcher built from one bare directory name d matches p exactly when
\* d is a whole component of p, at any position.
C2_BareDirMatchesAnyComponent ==
    (Done /\ Single /\ IsBareDirName(patterns[1]))
        => ((result = "true") <=> IsWholeComponent(patterns[1], path))

\* C3: d/* does not cross directory boundaries: it matches a file directly
\* inside d (src/main.rs) and no file in a subdirectory below d
\* (src/utils/helper.rs), whereas src/**/* matches the files at any depth
\* below src.
C3_DirStarStaysInOneDirectory ==
    /\ (Done /\ Single /\ EndsWith(patterns[1], SlashStar)
            /\ IsBareDirName(clean_pattern(patterns[1])))
          => LET d == clean_pattern(patterns[1])
             IN  /\ IsDirectChildOf(path, d) => result = "true"
                 /\ (IsBelow(path, d) /\ ~IsDirectChildOf(path, d))
                        => result = "false"
    /\ (Done /\ patterns = <<Pat_src_deep_all>> /\ IsBelow(path, <<"s", "r", "c">>))
          => result = "true"

\* C4: a matcher built from the one pattern *.e (e without * ? /) matches p
\* exactly when what follows the last '.' of p's final component equals e,
\* a leading '.' (.gitignore) included.
C4_ExtensionIsAfterLastDot ==
    (Done /\ Single /\ StartsWith(patterns[1], <<"*", ".">>)
        /\ NoWildcardOrSlash(Slice(patterns[1], 2, Len(patterns[1])))
        /\ ~Contains(patterns[1], " "))
        => ((result = "true")
                <=> IsExtensionOf(Slice(patterns[1], 2, Len(patterns[1])), path))

\* a pattern of the exact filename form: none of * ? /, and a '.'
IsDottedFilename(pat) == NoWildcardOrSlash(pat) /\ Contains(pat, ".")

\* C5: a matcher built only from exact filename patterns (no * ? /, with a
\* '.') matches p exactly when the final component of p equals one of the
\* (trimmed) patterns, byte for byte, whatever directories precede it.
C5_ExactFilenameAnywhere ==
    (Done /\ \A k \in 1..Len(patterns) : IsDottedFilename(trim(patterns[k])))
        => ((result = "true")
                <=> \E k \in 1..Len(patterns) :
                        IsFinalComponent(trim(patterns[k]), path))

C5_Witness ==
    /\ Done
    /\ patterns = <<Pat_Cargo_toml>>
    /\ path = Path_project_Cargo_toml
    /\ result = "true"

\* C6: in a compiled glob the text a Star part consumes never holds a '/':
\* whenever the one compiled glob matches, the path splits into pieces in
\* which every Star piece is free of '/'; src/*.rs matches src/main.rs and
\* neither src/nested/deep.rs nor tests/main.rs, while the DoubleStar of
\* src/**/*.rs consumes "nested/deep" with its '/'.
C6_StarNeverCrossesSeparator ==
    /\ (Done /\ SingleGlob /\ result = "true")
          => GlobSplits(TheParts, 1, ToChars(path), 0, FALSE)
    /\ (Done /\ patterns = <<Pat_src_rs>>)
          => /\ path = Path_src_main_rs => result = "true"
             /\ path \in {Path_src_nested_deep_rs, Path_tests_main_rs}
                    => result = "false"
    /\ (Done /\ patterns = <<Pat_src_deep_rs>> /\ path = Path_src_nested_deep_rs)
          => result = "true"

C6_Witness ==
    /\ Done
    /\ patterns = <<Pat_src_rs>>
    /\ TheParts = <<Literal(<<"s", "r", "c", "/">>), Star, Literal(<<".", "r", "s">>)>>
    /\ path = Path_src_main_rs
    /\ result = "true"

\* C7: a **/ in a pattern may match zero path segments: src/**/*.rs matches
\* src/main.rs as well as src/utils/helper.rs, **/*.test.js matches
\* app.test.js as well as src/app.test.js, **/target/** matches target/debug.
C7_DoubleStarSlashMatchesZeroSegments ==
    /\ (Done /\ patterns = <<Pat_src_deep_rs>>
            /\ path \in {Path_src_main_rs, Path_src_utils_helper_rs})
          => result = "true"
    /\ (Done /\ patterns = <<Pat_deep_test_js>>
            /\ path \in {Path_app_test_js, Path_src_app_test_js})
          => result = "true"
    /\ (Done /\ patterns = <<Pat_deep_target>> /\ path = Path_target_debug)
          => result = "true"

OnlyLiteralAndQuestion(parts) ==
    \A k \in 1..Len(parts) : parts[k].kind \in {"Literal", "Question"}

\* C8: in a compiled glob ? matches exactly one character that is not '/',
\* for every character of every path, multi-byte ones included: a glob of
\* Literal and Question parts matches exactly the paths that split
\* accordingly, and *.?s matches main.rs, main.js, main.ts and neither
\* main.txt nor main.s.
C8_QuestionIsOneNonSeparatorChar ==
    /\ (Done /\ SingleGlob /\ OnlyLiteralAndQuestion(TheParts))
          => ((result = "true")
                  <=> GlobSplits(TheParts, 1, ToChars(path), 0, TRUE))
    /\ (Done /\ patterns = <<Pat_q_s>>)
          => /\ path \in {Path_main_rs, Path_main_js, Path_main_ts}
                    => result = "true"
             /\ path \in {Path_main_txt, Path_main_s} => result = "false"

\* C9: union law: the matcher built from [A, B] matches p exactly when the
\* matcher built from [A] or the matcher built from [B] does, and the answer
\* is the same for the list reversed and with a pattern repeated.
C9_UnionLaw ==
    (Done /\ Len(patterns) = 2)
        => LET A == patterns[1]
               B == patterns[2]
           IN  /\ (result = "true")
                      <=> (MatchesOf(<<A>>, path) = "true"
                              \/ MatchesOf(<<B>>, path) = "true")
               /\ result = MatchesOf(<<B, A>>, path)
               /\ result = MatchesOf(<<A, A, B>>, path)

\* the rules whose condition the pattern satisfies; the glob rule is the
\* rule of the patterns that satisfy no other
RulesSatisfied(pat) ==
    {r \in {"extension", "filename", "directory", "glob"} :
        \/ r = "extension" /\ IsExtensionPattern(pat)
        \/ r = "filename" /\ IsFilenamePattern(pat)
        \/ r = "directory" /\ IsDirectoryPattern(pat)
        \/ r = "glob" /\ ~IsExtensionPattern(pat) /\ ~IsFilenamePattern(pat)
              /\ ~IsDirectoryPattern(pat)}

BucketsFilled(m) ==
    {r \in {"extension", "filename", "directory", "glob"} :
        \/ r = "extension" /\ m.exact_extensions # {}
        \/ r = "filename" /\ m.exact_filenames # {}
        \/ r = "directory" /\ m.exact_directories # {}
        \/ r = "glob" /\ m.glob_patterns # <<>>}

\* C10: the classification rules are mutually exclusive: every trimmed
\* pattern satisfies the condition of exactly one of the four rules and is
\* inserted into exactly that bucket.
C10_RulesMutuallyExclusive ==
    (pc = "built" /\ Single)
        => /\ Cardinality(RulesSatisfied(trim(patterns[1]))) = 1
           /\ BucketsFilled(matcher) = RulesSatisfied(trim(patterns[1]))

\* the glob engine on the pattern compiled as it stands, against the whole
\* path string
LiteralGlob(s, p) == match_parts(p, parse_glob_pattern(s).parts, 0, 0)

\* C11: the fast-path buckets are transparent: for every pattern s and path
\* p, the matcher built from [s] accepts p exactly when the glob engine
\* applied to parse_glob_pattern(s) accepts the whole path string p.
C11_BucketsAreTransparent ==
    (Done /\ Single)
        => ((result = "true") <=> (LiteralGlob(patterns[1], path) = "true"))

\* C20: for every compiled part list and every path, matches_glob returns
\* true exactly when the whole path splits into consecutive pieces, one per
\* part in order: a Literal piece is its text, a Question piece one character
\* other than '/', a Star piece a run without '/', a DoubleStar piece any
\* run; both ends are anchored, so once the path is used up only Star and
\* DoubleStar parts may remain.
C20_GlobIsAnchoredSplit ==
    (Done /\ SingleGlob)
        => ((matches_glob(path, matcher.glob_patterns[1]) = "true")
                <=> GlobSplits(TheParts, 1, ToChars(path), 0, TRUE))

(***************************************************************************)
(* The file collectors.  collect_files (src/src/core/file_collector.rs)     *)
(* and get_files_recursively (src/src/file_processor.rs) walk a file system *)
(* and classify what they find.  A file's content is modelled as its bytes  *)
(* in run-length form: a sequence of runs [byte, count].                    *)
(***************************************************************************)
\* the length of the prefix is_binary_file inspects
SniffLen == 1024

\* the number of bytes of one MiB, max_size_mb's unit: 1024 * 1024
MiB == 1024 * 1024

Run(b, n) == [byte |-> b, count |-> n]

\* content.len()
RECURSIVE ContentLen(_)
ContentLen(content) ==
    IF content = <<>> THEN 0
    ELSE Head(content).count + ContentLen(Tail(content))

\* content[..n], for n <= content.len()
RECURSIVE Prefix(_, _)
Prefix(content, n) ==
    IF n = 0 \/ content = <<>> THEN <<>>
    ELSE IF Head(content).count >= n THEN <<Run(Head(content).byte, n)>>
    ELSE <<Head(content)>> \o Prefix(Tail(content), n - Head(content).count)

\* slice.contains(&b)
HasByte(content, b) ==
    \E k \in 1..Len(content) : content[k].byte = b /\ content[k].count > 0

\* is_binary_file: a NUL among the first min(len, 1024) bytes
sniffs_whole_content(content) == HasByte(content, 0)

is_binary_file(content) ==
    LET len == ContentLen(content)
        check_len == IF len < SniffLen THEN len ELSE SniffLen
    IN  HasByte(Prefix(content, check_len), 0)

\* "r", the directory the collectors are pointed at, and what it holds
Path_r == <<"r">>

\* "r/main.rs"
Path_r_main_rs == <<"r", "/", "m", "a", "i", "n", ".", "r", "s">>

\* "r/target"
Path_r_target == <<"r", "/", "t", "a", "r", "g", "e", "t">>

\* "r/target/x.rs"
Path_r_target_x_rs == Path_r_target \o <<"/", "x", ".", "r", "s">>

\* "r/src"
Path_r_src == <<"r", "/", "s", "r", "c">>

\* "r/src/script.py"
Path_r_src_script_py ==
    Path_r_src \o <<"/", "s", "c", "r", "i", "p", "t", ".", "p", "y">>

\* "r/src/é.md"
Path_r_src_e_md == Path_r_src \o <<"/", "C3", "A9", ".", "m", "d">>

\* "r/build"
Path_r_build == <<"r", "/", "b", "u", "i", "l", "d">>

\* "r/build/script.py"
Path_r_build_script_py ==
    Path_r_build \o <<"/", "s", "c", "r", "i", "p", "t", ".", "p", "y">>

\* the entries of the file system, each with the index of its directory
\* (0 for the top)
Entries ==
    <<[path |-> Path_r,               kind |-> "dir",  parent |-> 0],
      [path |-> Path_r_main_rs,       kind |-> "file", parent |-> 1],
      [path |-> Path_r_target,        kind |-> "dir",  parent |-> 1],
      [path |-> Path_r_target_x_rs,   kind |-> "file", parent |-> 3],
      [path |-> Path_r_src,           kind |-> "dir",  parent |-> 1],
      [path |-> Path_r_src_script_py, kind |-> "file", parent |-> 5],
      [path |-> Path_r_src_e_md,      kind |-> "file", parent |-> 5],
      [path |-> Path_r_build,         kind |-> "dir",  parent |-> 1],
      [path |-> Path_r_build_script_py, kind |-> "file", parent |-> 8]>>

Ids == DOMAIN Entries

Children(d) == {e \in Ids : Entries[e].parent = d}

\* e lies beneath directory d, at any depth
RECURSIVE IsBeneath(_, _)
IsBeneath(e, d) ==
    Entries[e].parent # 0
        /\ (Entries[e].parent = d \/ IsBeneath(Entries[e].parent, d))

\* the entry a path names, 0 when the path names nothing
EntryOf(p) ==
    IF \E e \in Ids : Entries[e].path = p
    THEN CHOOSE e \in Ids : Entries[e].path = p
    ELSE 0

\* the directory names should_skip_directory refuses whatever the patterns
SkipList ==
    {<<".", "g", "i", "t">>,
     <<".", "s", "v", "n">>,
     <<".", "h", "g">>,
     <<".", "b", "z", "r">>,
     <<"n", "o", "d", "e", "_", "m", "o", "d", "u", "l", "e", "s">>,
     <<"_", "_", "p", "y", "c", "a", "c", "h", "e", "_", "_">>,
     <<".", "m", "y", "p", "y", "_", "c", "a", "c", "h", "e">>,
     <<".", "p", "y", "t", "e", "s", "t", "_", "c", "a", "c", "h", "e">>,
     <<".", "v", "s", "c", "o", "d", "e">>,
     <<".", "i", "d", "e", "a">>,
     <<"t", "a", "r", "g", "e", "t">>,
     <<"b", "u", "i", "l", "d">>,
     <<"d", "i", "s", "t">>,
     <<"o", "u", "t">>}

\* the built-in exclude patterns the tests pin down: "*.log", "*.png",
\* ".git/*", "node_modules/*", "target/*", "logs/*", ".DS_Store"
DEFAULT_EXCLUDE_PATTERNS ==
    <<<<"*", ".", "l", "o", "g">>,
      <<"*", ".", "p", "n", "g">>,
      <<".", "g", "i", "t", "/", "*">>,
      <<"n", "o", "d", "e", "_", "m", "o", "d", "u", "l", "e", "s", "/", "*">>,
      <<"t", "a", "r", "g", "e", "t", "/", "*">>,
      <<"l", "o", "g", "s", "/", "*">>,
      <<".", "D", "S", "_", "S", "t", "o", "r", "e">>>>

\* the built-in include patterns the tests pin down: "*.rs", "*.py", "*.md",
\* "*.txt", "README*", "Makefile", "Cargo.toml"
DEFAULT_INCLUDE_PATTERNS ==
    <<<<"*", ".", "r", "s">>,
      <<"*", ".", "p", "y">>,
      <<"*", ".", "m", "d">>,
      <<"*", ".", "t", "x", "t">>,
      <<"R", "E", "A", "D", "M", "E", "*">>,
      <<"M", "a", "k", "e", "f", "i", "l", "e">>,
      <<"C", "a", "r", "g", "o", ".", "t", "o", "m", "l">>>>

\* a non-empty text file, readable and there to stay
Text(n) == <<Run(65, n)>>

GoodFile ==
    [stat |-> "ok", readable |-> TRUE, listable |-> FALSE, content |-> Text(12)]

Directory(listable) ==
    [stat |-> "ok", readable |-> FALSE, listable |-> listable, content |-> <<>>]

\* the contents the file r/main.rs may hold: empty, text, a NUL inside, a
\* NUL as the last sniffed byte, a NUL just behind the sniffed prefix, and
\* text of exactly one MiB and of one byte more
ProbeContents ==
    {<<>>,
     Text(12),
     <<Run(65, 5), Run(0, 3), Run(65, 5)>>,
     <<Run(65, SniffLen - 1), Run(0, 1)>>,
     <<Run(65, SniffLen), Run(0, 1)>>,
     Text(MiB),
     Text(MiB + 1)}

\* r/main.rs may also vanish between being listed and being examined, or
\* refuse to be read
ProbeFiles ==
    {[stat |-> s, readable |-> r, listable |-> FALSE, content |-> c] :
        s \in {"ok", "vanishes"}, r \in BOOLEAN, c \in ProbeContents}

\* the file systems: r/main.rs varies, r/target and r/src may refuse to be
\* listed
Trees ==
    {<<Directory(TRUE), probe, Directory(lt), GoodFile, Directory(ls),
       GoodFile, GoodFile, Directory(TRUE), GoodFile>> :
        probe \in ProbeFiles, lt \in BOOLEAN, ls \in BOOLEAN}

\* the roots handed to a collector: the directory, a file and a directory, the
\* directory and a file inside it, two directories that hold the same file
RootLists ==
    {<<Path_r>>,
     <<Path_r_main_rs, Path_r_src>>,
     <<Path_r, Path_r_main_rs>>,
     <<Path_r_src, Path_r_build>>}

\* "**/tmp"
Pat_deep_tmp == <<"*", "*", "/", "t", "m", "p">>

\* the user's exclude patterns: none, "src/*", "*.rs", "**/tmp"
UserExcludes == {<<>>, <<Pat_src_all>>, <<Pat_rs>>, <<Pat_deep_tmp>>}

\* the user's include patterns: none, "*.rs"
UserIncludes == {<<>>, <<Pat_rs>>}

\* max_size_mb: 0, 1 and 2^44
SizeLimits == {U64(0, 0), U64(0, 1), U64(1, 0)}

\* max_size_mb * 1024 * 1024 does not fit 64 bits: hi * 2^64 is beyond them
MultiplyOverflows(mb) == mb.hi > 0

\* the 64 low bits of max_size_mb * 1024 * 1024, what a build without
\* overflow checks computes
wrapping_mul_MiB(mb) == mb.lo * MiB

(***************************************************************************)
(* core/file_collector.rs: the decisions.                                   *)
(***************************************************************************)
\* should_skip_directory: the skip-list by name, then the exclude matcher
should_skip_directory(p, exclude_m) ==
    LET name == file_name(p)
    IN  IF name.some /\ name.val \in SkipList THEN "true"
        ELSE matches_path(exclude_m, p)

\* metadata.len() <= max_size_bytes && metadata.len() > 0
size_above_zero_only(len, max) == len > 0

SizeAdmits(len, max) == len <= max /\ len > 0

\* should_include_file: not excluded, included, then the size of the file
should_include_file(p, file, exclude_m, include_m, max) ==
    LET excluded == matches_path(exclude_m, p)
    IN  IF excluded = "true" THEN "false"
        ELSE IF excluded = "panic" THEN "panic"
        ELSE LET included == matches_path(include_m, p)
             IN  IF included # "true" THEN included
                 ELSE IF file.stat = "ok"
                 THEN Bool(SizeAdmits(ContentLen(file.content), max))
                 ELSE "false"

\* is_text_file: the content is read and sniffed; a failed read is no text
is_text_file(file) ==
    IF file.readable THEN ~is_binary_file(file.content) ELSE FALSE

\* if should_include_file(..) && is_text_file(..) { all_files.push(..) }
Admission(p, file, exclude_m, include_m, max) ==
    LET keep == should_include_file(p, file, exclude_m, include_m, max)
    IN  IF keep = "true" THEN Bool(is_text_file(file)) ELSE keep

(***************************************************************************)
(* The walk.  frames is WalkDir's stack: the entries still to come of every *)
(* directory being listed, innermost last; a directory hands out its        *)
(* entries in no particular order.                                          *)
(***************************************************************************)
Top == frames[Len(frames)]

RECURSIVE Strip(_)
Strip(fr) ==
    IF fr # <<>> /\ fr[Len(fr)] = {}
    THEN Strip(SubSeq(fr, 1, Len(fr) - 1))
    ELSE fr

\* the stack once e has been handed out and the entries in pushed are next
After(e, pushed) ==
    Strip(Append([frames EXCEPT ![Len(frames)] = @ \ {e}], pushed))

\* what WalkDir still hands out of a directory the filter refused:
\* skip_current_dir, nothing
descends_anyway(e) == Children(e)

SkippedDirectory(e) == {}

Touch(visited, statted, listed, read) ==
    [visited |-> touched.visited \cup visited,
     statted |-> touched.statted \cup statted,
     listed  |-> touched.listed \cup listed,
     read    |-> touched.read \cup read]

\* what examining the file e touches: is_file stats it, should_include_file
\* stats it again past the matchers, is_text_file reads it
TouchFile(e, visited) ==
    LET p == Entries[e].path
        keep == should_include_file(p, tree[e], exclude_matcher,
                                    include_matcher, max_size_bytes)
    IN  Touch(visited, {e}, {}, IF keep = "true" THEN {e} ELSE {})

\* the effect of examining the file e on all_files and on the call
ExamineFile(e) ==
    LET p == Entries[e].path
        verdict == Admission(p, tree[e], exclude_matcher, include_matcher,
                             max_size_bytes)
    IN  /\ all_files' = IF verdict = "true" THEN Append(all_files, p)
                        ELSE all_files
        /\ cpc' = IF verdict = "panic" THEN "panicked"
                  ELSE IF frames' = <<>> THEN "roots" ELSE "walk"

collect_args == <<tree, paths, additional_excludes, additional_includes, max_size_mb>>

collect_locals ==
    <<exclude_patterns, include_patterns, exclude_matcher, include_matcher,
      max_size_bytes>>

(***************************************************************************)
(* core/file_collector.rs: collect_files.                                   *)
(***************************************************************************)
MatcherIdle ==
    /\ patterns = <<>>
    /\ matcher = EmptyMatcher
    /\ path = <<>>
    /\ result = "none"
    /\ pc = "idle"

\* the file system in which every file is a small text file and every
\* directory can be listed
PlainTree ==
    <<Directory(TRUE), GoodFile, Directory(TRUE), GoodFile, Directory(TRUE),
      GoodFile, GoodFile, Directory(TRUE), GoodFile>>

\* the arguments of a call: every file system under the first two root lists
\* and the limits 0 and 1, and the plain file system under every root list
\* and every limit
CollectArgs ==
    /\ additional_excludes \in UserExcludes
    /\ additional_includes \in UserIncludes
    /\ \/ /\ tree \in Trees
          /\ paths \in {<<Path_r>>, <<Path_r_main_rs, Path_r_src>>}
          /\ max_size_mb \in {U64(0, 0), U64(0, 1)}
       \/ /\ tree = PlainTree
          /\ paths \in RootLists
          /\ max_size_mb \in SizeLimits

LocalsUnset ==
    /\ exclude_patterns = <<>>
    /\ include_patterns = <<>>
    /\ exclude_matcher = EmptyMatcher
    /\ include_matcher = EmptyMatcher
    /\ max_size_bytes = 0
    /\ root_idx = 0
    /\ frames = <<>>
    /\ all_files = <<>>
    /\ touched = NoTouch

InitCollect ==
    /\ MatcherIdle
    /\ RenderIdle
    /\ PatchIdle
    /\ CollectArgs
    /\ LocalsUnset
    /\ cpc = "start"

\* the size limit, the two pattern lists and their matchers; a product that
\* overflows panics in a build with overflow checks and wraps in one without
BuildMatchers ==
    /\ cpc = "start"
    /\ \/ /\ max_size_bytes' = wrapping_mul_MiB(max_size_mb)
          /\ exclude_patterns' = DEFAULT_EXCLUDE_PATTERNS \o additional_excludes
          /\ include_patterns' = IF additional_includes = <<>>
                                 THEN DEFAULT_INCLUDE_PATTERNS
                                 ELSE additional_includes
          /\ exclude_matcher' = PatternMatcher_new(exclude_patterns')
          /\ include_matcher' = PatternMatcher_new(include_patterns')
          /\ root_idx' = 1
          /\ cpc' = "roots"
       \/ /\ MultiplyOverflows(max_size_mb)
          /\ cpc' = "overflowed"
          /\ UNCHANGED <<max_size_bytes, exclude_patterns, include_patterns,
                         exclude_matcher, include_matcher, root_idx>>
    /\ UNCHANGED <<frames, all_files, touched>>
    /\ UNCHANGED <<matcher_vars, render_vars, patch_vars, collect_args>>

\* for path in paths: path.is_file()
RootFile ==
    /\ cpc = "roots"
    /\ root_idx <= Len(paths)
    /\ LET e == EntryOf(paths[root_idx])
       IN  /\ e # 0
           /\ Entries[e].kind = "file"
           /\ touched' = TouchFile(e, {})
           /\ frames' = <<>>
           /\ ExamineFile(e)
    /\ root_idx' = root_idx + 1
    /\ UNCHANGED <<matcher_vars, render_vars, patch_vars, collect_args, collect_locals>>

\* for path in paths: path.is_dir(), WalkDir::new(path) starts at the root
RootDirectory ==
    /\ cpc = "roots"
    /\ root_idx <= Len(paths)
    /\ LET e == EntryOf(paths[root_idx])
       IN  /\ e # 0
           /\ Entries[e].kind = "dir"
           /\ touched' = Touch({}, {e}, {}, {})
           /\ frames' = <<{e}>>
    /\ cpc' = "walk"
    /\ root_idx' = root_idx + 1
    /\ UNCHANGED all_files
    /\ UNCHANGED <<matcher_vars, render_vars, patch_vars, collect_args, collect_locals>>

\* filter_entry on a directory should_skip_directory accepts: WalkDir does
\* not descend; a panic of the exclude matcher ends the call
PruneDirectory ==
    /\ cpc = "walk"
    /\ \E e \in Top :
          LET skip == should_skip_directory(Entries[e].path, exclude_matcher)
          IN  /\ Entries[e].kind = "dir"
              /\ skip # "false"
              /\ touched' = Touch({e}, {e}, {}, {})
              /\ frames' = IF skip = "panic" THEN frames
                           ELSE After(e, SkippedDirectory(e))
              /\ cpc' = IF skip = "panic" THEN "panicked"
                        ELSE IF frames' = <<>> THEN "roots" ELSE "walk"
    /\ UNCHANGED <<root_idx, all_files>>
    /\ UNCHANGED <<matcher_vars, render_vars, patch_vars, collect_args, collect_locals>>

\* a directory that passes the filter is no file, and WalkDir lists it next:
\* its entries come first, or the error of the listing, which filter_map
\* drops
EnterDirectory ==
    /\ cpc = "walk"
    /\ \E e \in Top :
          /\ Entries[e].kind = "dir"
          /\ should_skip_directory(Entries[e].path, exclude_matcher) = "false"
          /\ touched' = Touch({e}, {e}, {e}, {})
          /\ frames' = After(e, IF tree[e].listable THEN Children(e) ELSE {})
          /\ cpc' = IF frames' = <<>> THEN "roots" ELSE "walk"
    /\ UNCHANGED <<root_idx, all_files>>
    /\ UNCHANGED <<matcher_vars, render_vars, patch_vars, collect_args, collect_locals>>

\* a file passes the filter and is examined
VisitFile ==
    /\ cpc = "walk"
    /\ \E e \in Top :
          /\ Entries[e].kind = "file"
          /\ touched' = TouchFile(e, {e})
          /\ frames' = After(e, {})
          /\ ExamineFile(e)
    /\ UNCHANGED root_idx
    /\ UNCHANGED <<matcher_vars, render_vars, patch_vars, collect_args, collect_locals>>

\* Ok(all_files)
ReturnFiles ==
    /\ cpc = "roots"
    /\ root_idx > Len(paths)
    /\ cpc' = "returned"
    /\ UNCHANGED <<root_idx, frames, all_files, touched>>
    /\ UNCHANGED <<matcher_vars, render_vars, patch_vars, collect_args, collect_locals>>

NextCollect ==
    \/ BuildMatchers
    \/ RootFile
    \/ RootDirectory
    \/ PruneDirectory
    \/ EnterDirectory
    \/ VisitFile
    \/ ReturnFiles

SpecCollect == InitCollect /\ [][NextCollect]_vars

(***************************************************************************)
(* file_processor.rs: get_files_recursively, called as the tests call it    *)
(* (ignore_comments = ignore_docstrings = false).  all_exclude, all_include *)
(* and found_files are held in exclude_patterns, include_patterns and       *)
(* all_files.                                                               *)
(***************************************************************************)
\* pattern_matcher::matches_any_pattern: some pattern of the list matches
matches_any_pattern(p, pats) == MatchesOf(pats, p)

\* is_valid_file: Err when the metadata cannot be read, else whether the
\* file is non-empty, included and not excluded
is_valid_file(p, file, exclude, include) ==
    IF file.stat # "ok" THEN "err"
    ELSE IF ContentLen(file.content) = 0 THEN "false"
    ELSE LET included == matches_any_pattern(p, include)
         IN  IF included # "true" THEN included
             ELSE LET excluded == matches_any_pattern(p, exclude)
                  IN  IF excluded = "true" THEN "false"
                      ELSE IF excluded = "false" THEN "true"
                      ELSE excluded

\* where the call stands after a step that ended with outcome r
Onward(r) ==
    IF r = "err" THEN "failed"
    ELSE IF r = "panic" THEN "panicked"
    ELSE IF frames' = <<>> THEN "roots" ELSE "walk"

ValidateFile(e) ==
    LET p == Entries[e].path
        valid == is_valid_file(p, tree[e], exclude_patterns, include_patterns)
    IN  /\ all_files' = IF valid = "true" THEN Append(all_files, p)
                        ELSE all_files
        /\ cpc' = Onward(valid)

InitRecursive ==
    /\ MatcherIdle
    /\ RenderIdle
    /\ PatchIdle
    /\ CollectArgs
    /\ LocalsUnset
    /\ cpc = "start"

\* all_exclude and all_include: the defaults, extended by the arguments
BuildPatternLists ==
    /\ cpc = "start"
    /\ exclude_patterns' = DEFAULT_EXCLUDE_PATTERNS \o additional_excludes
    /\ include_patterns' = DEFAULT_INCLUDE_PATTERNS \o additional_includes
    /\ root_idx' = 1
    /\ cpc' = "roots"
    /\ UNCHANGED <<exclude_matcher, include_matcher, max_size_bytes>>
    /\ UNCHANGED <<frames, all_files, touched>>
    /\ UNCHANGED <<matcher_vars, render_vars, patch_vars, collect_args>>

\* for path in paths: path.is_file(), is_valid_file(..).await?
RecursiveRootFile ==
    /\ cpc = "roots"
    /\ root_idx <= Len(paths)
    /\ LET e == EntryOf(paths[root_idx])
       IN  /\ e # 0
           /\ Entries[e].kind = "file"
           /\ touched' = Touch({}, {e}, {}, {})
           /\ frames' = <<>>
           /\ ValidateFile(e)
    /\ root_idx' = root_idx + 1
    /\ UNCHANGED <<matcher_vars, render_vars, patch_vars, collect_args, collect_locals>>

\* for path in paths: path.is_dir(), collect_files_recursive(..).await?
RecursiveRootDirectory ==
    /\ cpc = "roots"
    /\ root_idx <= Len(paths)
    /\ LET e == EntryOf(paths[root_idx])
       IN  /\ e # 0
           /\ Entries[e].kind = "dir"
           /\ touched' = Touch({}, {e}, {}, {})
           /\ frames' = <<{e}>>
    /\ cpc' = "walk"
    /\ root_idx' = root_idx + 1
    /\ UNCHANGED all_files
    /\ UNCHANGED <<matcher_vars, render_vars, patch_vars, collect_args, collect_locals>>

\* collect_files_recursive on a directory entry: an excluded directory is
\* passed over with continue, and WalkDir lists every directory it hands out;
\* a listing that fails is the next item, an Err, which `?` returns
WalkDirectory ==
    /\ cpc = "walk"
    /\ \E e \in Top :
          LET excluded == matches_any_pattern(Entries[e].path, exclude_patterns)
          IN  /\ Entries[e].kind = "dir"
              /\ touched' = Touch({e}, {e}, IF excluded = "panic" THEN {} ELSE {e}, {})
              /\ frames' = IF excluded = "panic" THEN frames
                           ELSE After(e, IF tree[e].listable THEN Children(e) ELSE {})
              /\ cpc' = Onward(IF excluded = "panic" THEN "panic"
                               ELSE IF tree[e].listable THEN "ok" ELSE "err")
    /\ UNCHANGED <<root_idx, all_files>>
    /\ UNCHANGED <<matcher_vars, render_vars, patch_vars, collect_args, collect_locals>>

\* collect_files_recursive on a file entry: is_valid_file(..).await?
WalkFile ==
    /\ cpc = "walk"
    /\ \E e \in Top :
          /\ Entries[e].kind = "file"
          /\ touched' = Touch({e}, {e}, {}, {})
          /\ frames' = After(e, {})
          /\ ValidateFile(e)
    /\ UNCHANGED root_idx
    /\ UNCHANGED <<matcher_vars, render_vars, patch_vars, collect_args, collect_locals>>

\* Ok(found_files)
ReturnFound ==
    /\ cpc = "roots"
    /\ root_idx > Len(paths)
    /\ cpc' = "returned"
    /\ UNCHANGED <<root_idx, frames, all_files, touched>>
    /\ UNCHANGED <<matcher_vars, render_vars, patch_vars, collect_args, collect_locals>>

NextRecursive ==
    \/ BuildPatternLists
    \/ RecursiveRootFile
    \/ RecursiveRootDirectory
    \/ WalkDirectory
    \/ WalkFile
    \/ ReturnFound

SpecRecursive == InitRecursive /\ [][NextRecursive]_vars

(***************************************************************************)
(* The claims about the collectors.                                         *)
(***************************************************************************)
\* the paths a collector has collected so far
Collected == {all_files[k] : k \in 1..Len(all_files)}

\* the include patterns that decide: the user's, the built-in ones when the
\* user gave none
DecidingIncludes ==
    IF additional_includes = <<>> THEN DEFAULT_INCLUDE_PATTERNS
    ELSE additional_includes

\* C12: in the collector user include patterns replace the built-in default
\* includes: every collected file matches the user's includes when there is
\* one, the built-in includes when there is none; with include ["*.rs"] the
\* non-empty text file script.py is not collected.
C12_UserIncludesReplaceDefaults ==
    /\ \A p \in Collected : MatchesOf(DecidingIncludes, p) = "true"
    /\ additional_includes = <<Pat_rs>> => Path_r_src_script_py \notin Collected

\* the files a collector has examined
Examined == {e \in Ids : Entries[e].kind = "file" /\ e \in touched.statted}

\* the offset of the first byte of run k
RunStart(content, k) == ContentLen(SubSeq(content, 1, k - 1))

\* one of the first n bytes of the content is NUL
NulWithin(content, n) ==
    \E k \in 1..Len(content) :
        /\ content[k].byte = 0
        /\ content[k].count > 0
        /\ RunStart(content, k) < n

\* the four conditions of admission, for the file e
NotExcluded(e) ==
    MatchesOf(DEFAULT_EXCLUDE_PATTERNS \o additional_excludes,
              Entries[e].path) = "false"

IsIncluded(e) == matches_path(include_matcher, Entries[e].path) = "true"

SizeWithinLimit(e) ==
    /\ tree[e].stat = "ok"
    /\ 0 < ContentLen(tree[e].content)
    /\ ContentLen(tree[e].content) <= max_size_bytes

SniffedAsText(e) == tree[e].readable /\ ~NulWithin(tree[e].content, 1024)

\* C13: collect_files admits a visited file exactly when all four conditions
\* hold: the exclude matcher (built-in and user excludes) does not match its
\* path, the include matcher matches it, its size is above 0 and at most
\* max_size_bytes (exactly max_size_bytes is admitted, empty never), and the
\* sniff finds no NUL byte; a file matching both an include and an exclude
\* pattern is not admitted.
C13_AdmissionIsFourConditions ==
    \A e \in Examined :
        /\ (Entries[e].path \in Collected)
              <=> (NotExcluded(e) /\ IsIncluded(e) /\ SizeWithinLimit(e)
                      /\ SniffedAsText(e))
        /\ (IsIncluded(e) /\ ~NotExcluded(e)) => Entries[e].path \notin Collected

\* a file of exactly max_size_bytes has been admitted
C13_Witness ==
    /\ cpc = "returned"
    /\ max_size_mb = U64(0, 1)
    /\ max_size_bytes = 1024 * 1024
    /\ ContentLen(tree[2].content) = 1024 * 1024
    /\ Path_r_main_rs \in Collected

\* min(len(content), 1024)
SniffedLength(content) ==
    IF ContentLen(content) < 1024 THEN ContentLen(content) ELSE 1024

\* C14: is_binary_file(content) is true exactly when one of the first
\* min(len(content), 1024) bytes is NUL: empty and NUL-free content is text,
\* a NUL at an offset of 1024 or more does not count, and a file with a NUL
\* in its first 1024 bytes is not collected even when it is included, not
\* excluded and within the size limit.
C14_BinaryIsNulInSniffedPrefix ==
    /\ \A e \in Ids :
          Entries[e].kind = "file"
              => (is_binary_file(tree[e].content)
                    <=> NulWithin(tree[e].content, SniffedLength(tree[e].content)))
    /\ \A e \in Examined :
          NulWithin(tree[e].content, 1024) => Entries[e].path \notin Collected

\* r/main.rs, 1024 bytes long with a NUL as its last byte, was examined and
\* left out although included, not excluded and within the size limit
C14_Witness ==
    /\ cpc = "returned"
    /\ 2 \in Examined
    /\ ContentLen(tree[2].content) = 1024
    /\ NulWithin(tree[2].content, 1024)
    /\ tree[2].readable
    /\ NotExcluded(2) /\ IsIncluded(2) /\ SizeWithinLimit(2)
    /\ Path_r_main_rs \notin Collected

\* the directory d is one the walk must not enter: its name is on the
\* skip-list, or the exclude matcher matches its path
MustNotEnter(d) ==
    /\ Entries[d].kind = "dir"
    /\ \/ filename(Entries[d].path) \in SkipList
       \/ MatchesOf(DEFAULT_EXCLUDE_PATTERNS \o additional_excludes,
                    Entries[d].path) = "true"

Untouched(e) ==
    /\ e \notin touched.visited
    /\ e \notin touched.statted
    /\ e \notin touched.listed
    /\ e \notin touched.read
    /\ Entries[e].path \notin Collected

\* C15: collect_files never enters a directory that the exclude matcher
\* matches or whose name is on the built-in skip-list: the directory is not
\* listed and no entry beneath it is ever visited, stat'd, read or collected,
\* so whatever lies beneath it, unreadable or huge, cannot make the call
\* fail.
C15_PrunedDirectoryNeverEntered ==
    /\ \A d \in Ids :
          MustNotEnter(d)
              => /\ d \notin touched.listed
                 /\ \A e \in Ids : IsBeneath(e, d) => Untouched(e)
    /\ cpc # "failed"

\* the walk is over, it met r/target, which cannot be listed, and r/src,
\* which the user excluded, and touched nothing beneath either
C15_Witness ==
    /\ cpc = "returned"
    /\ ~tree[3].listable
    /\ additional_excludes = <<Pat_src_all>>
    /\ {3, 5} \subseteq touched.visited
    /\ \A e \in {4, 6, 7} : Untouched(e)

\* the file e can be reached by the walk from some root without passing a
\* directory that is pruned or cannot be listed
RECURSIVE Reachable(_)
Reachable(e) ==
    \/ \E k \in 1..Len(paths) : paths[k] = Entries[e].path
    \/ /\ Entries[e].parent # 0
       /\ Reachable(Entries[e].parent)
       /\ ~MustNotEnter(Entries[e].parent)
       /\ tree[Entries[e].parent].listable

\* C16: collect_files is never aborted by a single entry: a file whose
\* metadata or content cannot be read is left out, a directory that cannot be
\* listed is skipped, and the call returns Ok having examined every other
\* file under every root.
C16_NeverAbortedByOneEntry ==
    /\ cpc \notin {"failed", "panicked"}
    /\ \A e \in Examined :
          (tree[e].stat # "ok" \/ ~tree[e].readable)
              => Entries[e].path \notin Collected
    /\ cpc = "returned"
          => \A e \in Ids :
                (Entries[e].kind = "file" /\ Reachable(e)) => e \in Examined

\* C17: get_files_recursively handles permission errors gracefully: when the
\* tree holds a directory that cannot be listed or a file whose metadata
\* cannot be read, the call still returns Ok, without the unreadable entry in
\* its result.
C17_PermissionErrorsTolerated ==
    /\ cpc # "failed"
    /\ \A e \in Examined : tree[e].stat # "ok" => Entries[e].path \notin Collected

(***************************************************************************)
(* The renderers: concatenate_files of core/content_processor.rs and of     *)
(* file_processor.rs.  The bundle is modelled as the sequence of the pieces *)
(* pushed onto the output string, each piece a record of what it is and the *)
(* path it is about: "heading" is the line ## path, "fence" a line of three *)
(* backquotes, "error marker" the line *Error reading file: ..*.  The files *)
(* rendered lie in the current directory.                                   *)
(***************************************************************************)
\* the value of a byte, for the bytes of the file names below
ByteValue(b) ==
    CASE b = "." -> 46 [] b = "a" -> 97 [] b = "b" -> 98 [] b = "i" -> 105
      [] b = "l" -> 108 [] b = "m" -> 109 [] b = "n" -> 110 [] b = "r" -> 114
      [] b = "s" -> 115

\* Ord for OsStr: byte by byte, the shorter first
RECURSIVE BytesLess(_, _)
BytesLess(a, b) ==
    IF b = <<>> THEN FALSE
    ELSE IF a = <<>> THEN TRUE
    ELSE IF Head(a) # Head(b) THEN ByteValue(Head(a)) < ByteValue(Head(b))
    ELSE BytesLess(Tail(a), Tail(b))

\* Ord for Path: component by component
RECURSIVE ComponentsLess(_, _)
ComponentsLess(a, b) ==
    IF b = <<>> THEN FALSE
    ELSE IF a = <<>> THEN TRUE
    ELSE IF Head(a) # Head(b) THEN BytesLess(Head(a), Head(b))
    ELSE ComponentsLess(Tail(a), Tail(b))

PathLess(p, q) == ComponentsLess(components(p), components(q))

\* Vec::sort
RECURSIVE Insert(_, _)
Insert(p, sorted) ==
    IF sorted = <<>> THEN <<p>>
    ELSE IF PathLess(p, Head(sorted)) THEN <<p>> \o sorted
    ELSE <<Head(sorted)>> \o Insert(p, Tail(sorted))

RECURSIVE sort(_)
sort(list) ==
    IF list = <<>> THEN <<>> ELSE Insert(Head(list), sort(Tail(list)))

\* "a.rs"
File_a_rs == <<"a", ".", "r", "s">>

\* "b.rs"
File_b_rs == <<"b", ".", "r", "s">>

\* "lib.rs"
File_lib_rs == <<"l", "i", "b", ".", "r", "s">>

\* "main.rs"
File_main_rs == <<"m", "a", "i", "n", ".", "r", "s">>

FileNames == {File_a_rs, File_b_rs, File_lib_rs, File_main_rs}

\* the file lists handed to a renderer: up to three different files, in
\* every order
FileLists ==
    {<<>>}
        \cup {<<a>> : a \in FileNames}
        \cup {l \in FileNames \X FileNames : l[1] # l[2]}
        \cup {l \in FileNames \X FileNames \X FileNames :
                l[1] # l[2] /\ l[1] # l[3] /\ l[2] # l[3]}

Piece(kind, p) == [kind |-> kind, path |-> p]

\* generate_directory_structure: the names, as the BTreeMap holds them
RECURSIVE TreeLines(_)
TreeLines(names) ==
    IF names = <<>> THEN <<>>
    ELSE <<Piece(IF Len(names) = 1 THEN "last tree line" ELSE "tree line",
                 Head(names))>> \o TreeLines(Tail(names))

generate_directory_structure(list) == TreeLines(sort(list))

\* core/content_processor.rs: one section per file, from index k on
RECURSIVE CoreSections(_, _, _)
CoreSections(list, cannot_read, k) ==
    IF k > Len(list) THEN <<>>
    ELSE (IF list[k] \in cannot_read
          THEN <<Piece("heading", list[k]),
                 Piece("error marker", list[k])>>
          ELSE <<Piece("heading", list[k]),
                 Piece("fence, language", list[k]),
                 Piece("processed content", list[k]),
                 Piece("fence", list[k])>>)
         \o CoreSections(list, cannot_read, k + 1)

CoreBundle(list, cannot_read) ==
    <<Piece("title, structure", <<>>), Piece("fence", <<>>)>>
        \o generate_directory_structure(list)
        \o <<Piece("fence", <<>>), Piece("title, contents", <<>>)>>
        \o CoreSections(list, cannot_read, 1)

\* file_processor.rs: one section per file of sorted_files, from index k on
RECURSIVE SortedSections(_, _, _)
SortedSections(sorted_files, cannot_read, k) ==
    IF k > Len(sorted_files) THEN <<>>
    ELSE (IF sorted_files[k] \in cannot_read
          THEN <<Piece("heading", sorted_files[k]),
                 Piece("fence, type", sorted_files[k]),
                 Piece("fence", sorted_files[k])>>
          ELSE <<Piece("heading", sorted_files[k]),
                 Piece("fence, type", sorted_files[k]),
                 Piece("content", sorted_files[k]),
                 Piece("fence", sorted_files[k])>>)
         \o SortedSections(sorted_files, cannot_read, k + 1)

SortedBundle(list, cannot_read) ==
    <<Piece("title, structure", <<>>), Piece("tree root", <<>>)>>
        \o generate_directory_structure(list)
        \o <<Piece("title, contents", <<>>)>>
        \o SortedSections(sort(list), cannot_read, 1)

InitRender ==
    /\ MatcherIdle
    /\ CollectorIdle
    /\ PatchIdle
    /\ files \in FileLists
    /\ unreadable \in SUBSET FileNames
    /\ output_file \in {None, Some(<<"o">>)}
    /\ output = <<>>
    /\ written = None
    /\ rpc = "ready"

\* core::content_processor::concatenate_files
ConcatenateCore ==
    /\ rpc = "ready"
    /\ output' = CoreBundle(files, unreadable)
    /\ written' = IF output_file.some THEN Some(output') ELSE written
    /\ rpc' = "core"
    /\ UNCHANGED <<files, unreadable, output_file>>
    /\ UNCHANGED <<matcher_vars, collector_vars, patch_vars>>

\* file_processor::concatenate_files
ConcatenateSorted ==
    /\ rpc = "ready"
    /\ output' = SortedBundle(files, unreadable)
    /\ written' = IF output_file.some THEN Some(output') ELSE written
    /\ rpc' = "file_processor"
    /\ UNCHANGED <<files, unreadable, output_file>>
    /\ UNCHANGED <<matcher_vars, collector_vars, patch_vars>>

NextRender == ConcatenateCore \/ ConcatenateSorted

SpecRender == InitRender /\ [][NextRender]_vars

\* the paths of the per-file sections of a bundle, in their order
RECURSIVE SectionPaths(_)
SectionPaths(bundle) ==
    IF bundle = <<>> THEN <<>>
    ELSE (IF Head(bundle).kind = "heading" THEN <<Head(bundle).path>> ELSE <<>>)
         \o SectionPaths(Tail(bundle))

InPathOrder(list) ==
    \A i \in 1..Len(list) : \A j \in (i + 1)..Len(list) :
        ~PathLess(list[j], list[i])

\* the same files, in whatever order
SameFiles(a, b) ==
    /\ Len(a) = Len(b)
    /\ {a[k] : k \in 1..Len(a)} = {b[k] : k \in 1..Len(b)}

\* what the renderer that ran would have produced for another list
BundleFor(list) ==
    IF rpc = "core" THEN CoreBundle(list, unreadable)
    ELSE SortedBundle(list, unreadable)

\* C18: concatenate_files treats the file list as a set: it emits the
\* per-file sections in sorted path order whatever the order of its input,
\* so two lists of the same files in different orders give the same bundle.
C18_SectionsInSortedOrder ==
    rpc \in {"core", "file_processor"}
        => /\ InPathOrder(SectionPaths(output))
           /\ \A other \in FileLists :
                 SameFiles(other, files) => BundleFor(other) = output

(***************************************************************************)
(* Search-and-replace patching (src/src/patch.rs).  A request names a file  *)
(* and a list of updates, each an old_content and a new_content.  The file  *)
(* system is the set of directories that exist and, for every file path of  *)
(* interest, its content or None when it does not exist.  Texts are ASCII   *)
(* here, so a byte is a character.                                          *)
(***************************************************************************)

\* Result<usize>: Ok(count) or Err(message)
Ok(n) == Some([ok |-> TRUE, count |-> n, error |-> ""])

Err(e) == Some([ok |-> FALSE, count |-> 0, error |-> e])

\* sub occupies s from the 1-based position i on
IsAt(s, sub, i) ==
    /\ i + Len(sub) - 1 <= Len(s)
    /\ SubSeq(s, i, i + Len(sub) - 1) = sub

\* str::contains
contains(s, sub) == \E i \in 1..(Len(s) + 1) : IsAt(s, sub, i)

\* str::replace from position i on: the matches are found left to right and
\* do not overlap; the empty pattern matches at every character boundary
RECURSIVE ReplaceFrom(_, _, _, _)
ReplaceFrom(s, from, to, i) ==
    IF from = <<>>
    THEN IF i > Len(s) THEN to
         ELSE to \o <<s[i]>> \o ReplaceFrom(s, from, to, i + 1)
    ELSE IF i > Len(s) THEN <<>>
         ELSE IF IsAt(s, from, i)
              THEN to \o ReplaceFrom(s, from, to, i + Len(from))
              ELSE <<s[i]>> \o ReplaceFrom(s, from, to, i + 1)

\* replaces the first occurrence only
RECURSIVE ReplaceFirstFrom(_, _, _, _)
ReplaceFirstFrom(s, from, to, i) ==
    IF i > Len(s) THEN (IF from = <<>> THEN to ELSE <<>>)
    ELSE IF IsAt(s, from, i)
         THEN to \o SubSeq(s, i + Len(from), Len(s))
         ELSE <<s[i]>> \o ReplaceFirstFrom(s, from, to, i + 1)

replaces_first_only(s, from, to) == ReplaceFirstFrom(s, from, to, 1)

replace(s, from, to) == ReplaceFrom(s, from, to, 1)

\* the 1-based position of the last "/" of p, 0 when there is none
RECURSIVE LastSlash(_, _)
LastSlash(p, i) ==
    IF i = 0 THEN 0
    ELSE IF p[i] = "/" THEN i ELSE LastSlash(p, i - 1)

\* Path::parent of a relative path: "d/f" has parent "d", "g" has parent ""
parent(p) ==
    IF LastSlash(p, Len(p)) = 0 THEN <<>>
    ELSE SubSeq(p, 1, LastSlash(p, Len(p)) - 1)

\* format!("{}.backup", file_path.display())
backup_path(p) == p \o <<".", "b", "a", "c", "k", "u", "p">>

Patch_d_f == <<"d", "/", "f">>

Patch_g == <<"g">>

\* the files a request may name
PatchTargets == {Patch_d_f, Patch_g}

\* every file path the patcher may read or write
PatchFiles == PatchTargets \cup {backup_path(p) : p \in PatchTargets}

\* Path::exists
exists(disk, p) ==
    \/ p \in disk.dirs
    \/ p \in DOMAIN disk.files /\ disk.files[p].some

\* fs::create_dir_all: an empty path is Ok(()) with nothing done; the targets
\* are at most one directory deep, so the path has no ancestor to create
create_dir_all(disk, p) ==
    IF p = <<>> THEN disk ELSE [disk EXCEPT !.dirs = @ \cup {p}]

\* fs::write
write(disk, p, content) == [disk EXCEPT !.files[p] = Some(content)]

\* fs::copy
copy(disk, from, to) == [disk EXCEPT !.files[to] = disk.files[from]]

\* the contents a target file starts with
FileContents ==
    {<<>>, <<"a">>, <<"a", "a">>, <<"a", "b">>,
     <<"a", "a", "a">>, <<"a", "b", "a">>}

OldContents == {<<>>, <<"a">>, <<"a", "a">>, <<"a", "b">>}

NewContents == {<<>>, <<"a">>, <<"b">>}

CodeUpdates ==
    {[old_content |-> o, new_content |-> n] : o \in OldContents, n \in NewContents}

\* the update lists of a request, the empty list among them
UpdateLists ==
    {<<>>} \cup {<<u>> : u \in CodeUpdates}
           \cup {<<u, v>> : u \in CodeUpdates, v \in CodeUpdates}

FileUpdates == {[path |-> p, updates |-> us] : p \in PatchTargets, us \in UpdateLists}

\* the file systems a request for target p may meet: the parent directory of
\* the target exists or not (the current directory always does); where it
\* exists the target and an older backup of it may exist too
DisksFor(p) ==
    {[dirs |-> ds, files |-> [q \in PatchFiles |-> 
                                 IF q = p THEN t
                                 ELSE IF q = backup_path(p) THEN b ELSE None]] :
        ds \in {{parent(p)} \ {<<>>}},
        t \in {None} \cup {Some(c) : c \in FileContents},
        b \in {None, Some(<<"b">>)}}
    \cup (IF parent(p) = <<>> THEN {}
          ELSE {[dirs |-> {}, files |-> [q \in PatchFiles |-> None]]})

\* file_update.updates.iter().all(|u| u.old_content.is_empty())
is_file_creation(fu) ==
    \A i \in 1..Len(fu.updates) : fu.updates[i].old_content = <<>>

\* the new_content of the updates from the i-th on, joined with ""
RECURSIVE JoinNew(_, _)
JoinNew(updates, i) ==
    IF i > Len(updates) THEN <<>>
    ELSE updates[i].new_content \o JoinNew(updates, i + 1)

InitPatch ==
    /\ MatcherIdle
    /\ CollectorIdle
    /\ RenderIdle
    /\ file_update \in FileUpdates
    /\ fs_before \in DisksFor(file_update.path)
    /\ fs = fs_before
    /\ dry_run \in BOOLEAN
    /\ create_backup \in BOOLEAN
    /\ updated_content = <<>>
    /\ applied_updates = 0
    /\ returned = None
    /\ lines = <<>>
    /\ sorted_updates = <<>>
    /\ ppc = "start"

patch_args == <<fs_before, file_update, dry_run, create_backup>>

\* a creation request for a path that exists is refused
CreateRefused ==
    /\ ppc = "start"
    /\ is_file_creation(file_update)
    /\ exists(fs, file_update.path)
    /\ returned' = Err("Cannot create file - already exists")
    /\ ppc' = "done"
    /\ UNCHANGED <<fs, updated_content, applied_updates>>
    /\ UNCHANGED <<matcher_vars, collector_vars, render_vars, patch_args, line_locals>>

\* a creation request first creates the parent directories of its path
CreateParent ==
    /\ ppc = "start"
    /\ is_file_creation(file_update)
    /\ ~exists(fs, file_update.path)
    /\ fs' = create_dir_all(fs, parent(file_update.path))
    /\ updated_content' = JoinNew(file_update.updates, 1)
    /\ ppc' = "parent created"
    /\ UNCHANGED <<applied_updates, returned>>
    /\ UNCHANGED <<matcher_vars, collector_vars, render_vars, patch_args, line_locals>>

\* the dry run of a creation prints the new file and returns
DryRunCreate ==
    /\ ppc = "parent created"
    /\ dry_run
    /\ returned' = Ok(Len(file_update.updates))
    /\ ppc' = "done"
    /\ UNCHANGED <<fs, updated_content, applied_updates>>
    /\ UNCHANGED <<matcher_vars, collector_vars, render_vars, patch_args, line_locals>>

\* the new file is written
WriteNewFile ==
    /\ ppc = "parent created"
    /\ ~dry_run
    /\ fs' = write(fs, file_update.path, updated_content)
    /\ returned' = Ok(Len(file_update.updates))
    /\ ppc' = "done"
    /\ UNCHANGED <<updated_content, applied_updates>>
    /\ UNCHANGED <<matcher_vars, collector_vars, render_vars, patch_args, line_locals>>

\* an update request for a path that does not exist is refused
FileMissing ==
    /\ ppc = "start"
    /\ ~is_file_creation(file_update)
    /\ ~exists(fs, file_update.path)
    /\ returned' = Err("File does not exist")
    /\ ppc' = "done"
    /\ UNCHANGED <<fs, updated_content, applied_updates>>
    /\ UNCHANGED <<matcher_vars, collector_vars, render_vars, patch_args, line_locals>>

\* the file is read into the in-memory copy
ReadOriginal ==
    /\ ppc = "start"
    /\ ~is_file_creation(file_update)
    /\ exists(fs, file_update.path)
    /\ updated_content' = fs.files[file_update.path].val
    /\ applied_updates' = 0
    /\ ppc' = "applying"
    /\ UNCHANGED <<fs, returned>>
    /\ UNCHANGED <<matcher_vars, collector_vars, render_vars, patch_args, line_locals>>

\* one turn of the loop over the updates: the next update is refused when its
\* old_content is not in the copy, else every occurrence is replaced
ApplyUpdate ==
    /\ ppc = "applying"
    /\ applied_updates < Len(file_update.updates)
    /\ LET update == file_update.updates[applied_updates + 1]
       IN  IF ~contains(updated_content, update.old_content)
           THEN /\ returned' = Err("Old content not found in file")
                /\ ppc' = "done"
                /\ UNCHANGED <<updated_content, applied_updates>>
           ELSE /\ updated_content' =
                       replace(updated_content, update.old_content,
                               update.new_content)
                /\ applied_updates' = applied_updates + 1
                /\ UNCHANGED <<returned, ppc>>
    /\ UNCHANGED fs
    /\ UNCHANGED <<matcher_vars, collector_vars, render_vars, patch_args, line_locals>>

\* the dry run of an update prints the changes and returns
DryRunPreview ==
    /\ ppc = "applying"
    /\ applied_updates = Len(file_update.updates)
    /\ dry_run
    /\ returned' = Ok(applied_updates)
    /\ ppc' = "done"
    /\ UNCHANGED <<fs, updated_content, applied_updates>>
    /\ UNCHANGED <<matcher_vars, collector_vars, render_vars, patch_args, line_locals>>

\* the file as it is on disk is copied to <path>.backup
CreateBackup ==
    /\ ppc = "applying"
    /\ applied_updates = Len(file_update.updates)
    /\ ~dry_run
    /\ create_backup
    /\ fs' = copy(fs, file_update.path, backup_path(file_update.path))
    /\ ppc' = "backed up"
    /\ UNCHANGED <<updated_content, applied_updates, returned>>
    /\ UNCHANGED <<matcher_vars, collector_vars, render_vars, patch_args, line_locals>>

\* the in-memory copy is written over the file
WriteUpdated ==
    /\ \/ ppc = "backed up"
       \/ /\ ppc = "applying"
          /\ applied_updates = Len(file_update.updates)
          /\ ~dry_run
          /\ ~create_backup
    /\ fs' = write(fs, file_update.path, updated_content)
    /\ returned' = Ok(applied_updates)
    /\ ppc' = "done"
    /\ UNCHANGED <<updated_content, applied_updates>>
    /\ UNCHANGED <<matcher_vars, collector_vars, render_vars, patch_args, line_locals>>

NextPatch ==
    \/ CreateRefused
    \/ CreateParent
    \/ DryRunCreate
    \/ WriteNewFile
    \/ FileMissing
    \/ ReadOriginal
    \/ ApplyUpdate
    \/ DryRunPreview
    \/ CreateBackup
    \/ WriteUpdated

SpecPatch == InitPatch /\ [][NextPatch]_vars

(***************************************************************************)
(* Claims about the patcher.                                                *)
(***************************************************************************)

\* the text after the updates from the i-th on, or "not found"
RECURSIVE AfterUpdates(_, _, _)
AfterUpdates(text, updates, i) ==
    IF i > Len(updates) THEN Some(text)
    ELSE IF ~contains(text, updates[i].old_content) THEN None
         ELSE AfterUpdates(replace(text, updates[i].old_content,
                                   updates[i].new_content), updates, i + 1)

\* whether a real run of the request on the disk succeeds: a creation needs
\* the path to be free, an update needs the file and every old_content found
RealRunSucceeds(disk, fu) ==
    IF is_file_creation(fu) THEN ~exists(disk, fu.path)
    ELSE /\ exists(disk, fu.path)
         /\ AfterUpdates(disk.files[fu.path].val, fu.updates, 1).some

\* C19: with dry_run set the patch operation changes nothing on the file
\* system at any point of the call (no file written or created, no .backup
\* written, no directory created), for updates and for creations alike, and
\* it returns what a real run returns: Ok with the number of updates when a
\* real run succeeds, an error when a real run fails.
C19_DryRunTouchesNothing ==
    dry_run =>
        /\ fs = fs_before
        /\ ppc = "done" =>
              /\ returned.val.ok = RealRunSucceeds(fs_before, file_update)
              /\ returned.val.ok => returned.val.count = Len(file_update.updates)

(***************************************************************************)
(* parse_glob_pattern on its own: the parser is handed every pattern of    *)
(* the domain as it is, untrimmed and whatever bucket it would go to.       *)
(***************************************************************************)
InitParse ==
    /\ patterns \in {<<a>> : a \in PatternDomain}
    /\ matcher = EmptyMatcher
    /\ path = <<>>
    /\ result = "none"
    /\ pc = "init"
    /\ CollectorIdle
    /\ RenderIdle
    /\ PatchIdle

\* the compiled pattern is kept where categorize_pattern keeps it
ParseGlobPattern ==
    /\ pc = "init"
    /\ matcher' = [EmptyMatcher EXCEPT
                      !.glob_patterns = <<parse_glob_pattern(patterns[1])>>]
    /\ pc' = "parsed"
    /\ UNCHANGED <<patterns, path, result>>
    /\ UNCHANGED <<collector_vars, render_vars, patch_vars>>

NextParse == ParseGlobPattern

SpecParse == InitParse /\ [][NextParse]_vars

\* a part written back as pattern text
PartText(part) ==
    CASE part.kind = "Literal" -> part.text
      [] part.kind = "Star" -> <<"*">>
      [] part.kind = "DoubleStar" -> <<"*", "*">>
      [] part.kind = "Question" -> <<"?">>

RECURSIVE PartsText(_, _)
PartsText(parts, i) ==
    IF i > Len(parts) THEN <<>>
    ELSE PartText(parts[i]) \o PartsText(parts, i + 1)

Parsed == pc = "parsed"

ParsedParts == matcher.glob_patterns[1].parts

\* C21: parse_glob_pattern returns, for every pattern, parts that written
\* back in order give the pattern again; no Literal is empty, no two Literals
\* are adjacent and no Literal contains * or ?.
C21_ParseKeepsThePattern ==
    Parsed =>
        /\ PartsText(ParsedParts, 1) = patterns[1]
        /\ matcher.glob_patterns[1].pattern = patterns[1]
        /\ \A i \in 1..Len(ParsedParts) :
              ParsedParts[i].kind = "Literal" =>
                  /\ ParsedParts[i].text # <<>>
                  /\ ~Contains(ParsedParts[i].text, "*")
                  /\ ~Contains(ParsedParts[i].text, "?")
                  /\ i < Len(ParsedParts) => ParsedParts[i + 1].kind # "Literal"

\* a pattern with literals around a **, a * and, elsewhere, a ? was parsed
C21_Witness ==
    /\ Parsed
    /\ patterns[1] = Pat_src_deep_rs
    /\ ParsedParts = <<Literal(<<"s", "r", "c", "/">>), DoubleStar,
                       Literal(<<"/">>), Star, Literal(<<".", "r", "s">>)>>

\* C22: the matcher built from *, **, ? and the empty pattern matches file,
\* file.ext, any/path/file and the one-character paths a and 1, and does not
\* match the two-character path ab.
C22_EdgeCaseMatcher ==
    (Done /\ patterns = EdgePatterns)
        => /\ path \in {Path_file, Path_file_ext, Path_any_path_file,
                        <<"a">>, Path_1} => result = "true"
           /\ path = Path_ab => result = "false"

(***************************************************************************)
(* Line-range patching (src/src/main.rs).  An update names the lines        *)
(* line_start..line_end (1-based, inclusive), the text expected there and   *)
(* the text to put there.  A text is a sequence of bytes; the line feed is  *)
(* the byte "LF" and the carriage return the byte "CR".                     *)
(***************************************************************************)

\* a line taken off its "\n" also loses one "\r" before it
StripCarriageReturn(line) ==
    IF line # <<>> /\ line[Len(line)] = "CR"
    THEN SubSeq(line, 1, Len(line) - 1) ELSE line

\* str::lines from the 1-based position i on, cur being the line under way:
\* a line ends at "\n" or "\r\n"; a last line without "\n" is kept as it is
\* and an empty rest gives no line
RECURSIVE LinesFrom(_, _, _)
LinesFrom(text, i, cur) ==
    IF i > Len(text) THEN (IF cur = <<>> THEN <<>> ELSE <<cur>>)
    ELSE IF text[i] = "LF"
         THEN <<StripCarriageReturn(cur)>> \o LinesFrom(text, i + 1, <<>>)
         ELSE LinesFrom(text, i + 1, Append(cur, text[i]))

str_lines(text) == LinesFrom(text, 1, <<>>)

\* [String]::join
RECURSIVE join(_, _)
join(ls, sep) ==
    IF ls = <<>> THEN <<>>
    ELSE IF Len(ls) = 1 THEN ls[1]
         ELSE ls[1] \o sep \o join(Tail(ls), sep)

\* usize::saturating_sub
saturating_sub(a, b) == IF a > b THEN a - b ELSE 0

\* Vec::splice of the 0-based inclusive range start_idx..=end_idx
splice(ls, start_idx, end_idx, new_lines) ==
    SubSeq(ls, 1, start_idx) \o new_lines \o SubSeq(ls, end_idx + 2, Len(ls))

\* u put into a list that is in descending line_start order, after the
\* updates that do not start before it (the sort is stable)
RECURSIVE InsertDescending(_, _)
InsertDescending(sorted, u) ==
    IF sorted = <<>> THEN <<u>>
    ELSE IF Head(sorted).line_start >= u.line_start
         THEN <<Head(sorted)>> \o InsertDescending(Tail(sorted), u)
         ELSE <<u>> \o sorted

\* sort_by(|a, b| b.line_start.cmp(&a.line_start)) of the first k updates
RECURSIVE SortDescending(_, _)
SortDescending(updates, k) ==
    IF k = 0 THEN <<>>
    ELSE InsertDescending(SortDescending(updates, k - 1), updates[k])

sort_by_line_start_descending(updates) == SortDescending(updates, Len(updates))

CRLF == <<"CR", "LF">>

Newline == <<"LF">>

\* validate_and_apply_update: the lines after the update, or the error
validate_and_apply_update(ls, update) ==
    LET start_idx == saturating_sub(update.line_start, 1)
        end_idx == saturating_sub(update.line_end, 1)
    IN  IF start_idx >= Len(ls)
        THEN [ok |-> FALSE, lines |-> ls, error |-> "Start line is beyond file length"]
        ELSE IF end_idx >= Len(ls)
        THEN [ok |-> FALSE, lines |-> ls, error |-> "End line is beyond file length"]
        ELSE IF start_idx > end_idx
        THEN [ok |-> FALSE, lines |-> ls, error |-> "Start line is after end line"]
        ELSE IF replace(join(SubSeq(ls, start_idx + 1, end_idx + 1), Newline),
                        CRLF, Newline)
                    # replace(update.old_content, CRLF, Newline)
        THEN [ok |-> FALSE, lines |-> ls, error |-> "Content mismatch"]
        ELSE [ok |-> TRUE,
              lines |-> splice(ls, start_idx, end_idx,
                               str_lines(update.new_content)),
              error |-> ""]

\* the texts the target file starts with: three lines, CRLF line endings, no
\* final newline, a blank last line, an empty file
Text_x_x_y == <<"x", "LF", "x", "LF", "y", "LF">>

Text_crlf == <<"x", "CR", "LF", "y", "CR", "LF">>

Text_no_final_newline == <<"x", "LF", "y">>

Text_blank_last_line == <<"x", "LF", "LF">>

LineFileTexts ==
    {Text_x_x_y, Text_crlf, Text_no_final_newline, Text_blank_last_line, <<>>}

\* line ranges as <<line_start, line_end>>: line 0, single lines, two lines,
\* start after end
LineRanges ==
    {<<0, 0>>, <<1, 0>>, <<1, 1>>, <<2, 2>>, <<3, 3>>, <<1, 2>>, <<2, 3>>, <<2, 1>>}

LineOldContents ==
    {<<"x">>, <<"y">>, <<"x", "LF", "y">>, <<"x", "CR", "LF", "y">>}

LineNewContents == {<<>>, <<"w">>, <<"w", "LF", "w">>}

LineUpdates ==
    {[line_start |-> r[1], line_end |-> r[2], old_content |-> o, new_content |-> n] :
        r \in LineRanges, o \in LineOldContents, n \in LineNewContents}

LineUpdateLists ==
    {<<>>} \cup {<<u>> : u \in LineUpdates}
           \cup {<<u, v>> : u \in LineUpdates, v \in LineUpdates}

\* the target is in the current directory; it exists or not, and has no
\* backup yet
LineDisks ==
    {[dirs |-> {}, files |-> [q \in PatchFiles |-> IF q = Patch_g THEN t ELSE None]] :
        t \in {None} \cup {Some(c) : c \in LineFileTexts}}

InitLinePatch ==
    /\ MatcherIdle
    /\ CollectorIdle
    /\ RenderIdle
    /\ file_update \in {[path |-> Patch_g, updates |-> us] : us \in LineUpdateLists}
    /\ fs_before \in LineDisks
    /\ fs = fs_before
    /\ dry_run \in BOOLEAN
    /\ create_backup \in BOOLEAN
    /\ updated_content = <<>>
    /\ applied_updates = 0
    /\ returned = None
    /\ lines = <<>>
    /\ sorted_updates = <<>>
    /\ ppc = "start"

\* a request for a path that does not exist is refused
MissingFile ==
    /\ ppc = "start"
    /\ ~exists(fs, file_update.path)
    /\ returned' = Err("File does not exist")
    /\ ppc' = "done"
    /\ UNCHANGED <<fs, updated_content, applied_updates, line_locals>>
    /\ UNCHANGED <<matcher_vars, collector_vars, render_vars, patch_args>>

\* the file is read and split into lines, the updates are sorted
ReadLines ==
    /\ ppc = "start"
    /\ exists(fs, file_update.path)
    /\ lines' = str_lines(fs.files[file_update.path].val)
    /\ sorted_updates' = sort_by_line_start_descending(file_update.updates)
    /\ applied_updates' = 0
    /\ ppc' = "applying"
    /\ UNCHANGED <<fs, updated_content, returned>>
    /\ UNCHANGED <<matcher_vars, collector_vars, render_vars, patch_args>>

\* one turn of the loop over the sorted updates
ValidateAndApply ==
    /\ ppc = "applying"
    /\ applied_updates < Len(sorted_updates)
    /\ LET r == validate_and_apply_update(lines, sorted_updates[applied_updates + 1])
       IN  IF r.ok
           THEN /\ lines' = r.lines
                /\ applied_updates' = applied_updates + 1
                /\ UNCHANGED <<returned, ppc>>
           ELSE /\ returned' = Err(r.error)
                /\ ppc' = "done"
                /\ UNCHANGED <<lines, applied_updates>>
    /\ UNCHANGED <<fs, updated_content, sorted_updates>>
    /\ UNCHANGED <<matcher_vars, collector_vars, render_vars, patch_args>>

\* the dry run prints the changes and returns
PreviewLines ==
    /\ ppc = "applying"
    /\ applied_updates = Len(sorted_updates)
    /\ dry_run
    /\ returned' = Ok(applied_updates)
    /\ ppc' = "done"
    /\ UNCHANGED <<fs, updated_content, applied_updates, line_locals>>
    /\ UNCHANGED <<matcher_vars, collector_vars, render_vars, patch_args>>

\* the file as it is on disk is copied to <path>.backup
BackupOriginal ==
    /\ ppc = "applying"
    /\ applied_updates = Len(sorted_updates)
    /\ ~dry_run
    /\ create_backup
    /\ fs' = copy(fs, file_update.path, backup_path(file_update.path))
    /\ ppc' = "backed up"
    /\ UNCHANGED <<updated_content, applied_updates, returned, line_locals>>
    /\ UNCHANGED <<matcher_vars, collector_vars, render_vars, patch_args>>

\* the lines are joined with "\n" and written over the file
WriteLines ==
    /\ \/ ppc = "backed up"
       \/ /\ ppc = "applying"
          /\ applied_updates = Len(sorted_updates)
          /\ ~dry_run
          /\ ~create_backup
    /\ fs' = write(fs, file_update.path, join(lines, Newline))
    /\ returned' = Ok(applied_updates)
    /\ ppc' = "done"
    /\ UNCHANGED <<updated_content, applied_updates, line_locals>>
    /\ UNCHANGED <<matcher_vars, collector_vars, render_vars, patch_args>>

NextLinePatch ==
    \/ MissingFile
    \/ ReadLines
    \/ ValidateAndApply
    \/ PreviewLines
    \/ BackupOriginal
    \/ WriteLines

SpecLinePatch == InitLinePatch /\ [][NextLinePatch]_vars

(***************************************************************************)
(* Claims about the line-range patcher.                                     *)
(***************************************************************************)
NormaliseLineEndings(text) == replace(text, CRLF, Newline)

\* lines are numbered from 1: the range names a line the file does not have
RangeOutsideFile(ls, u) ==
    \/ u.line_start < 1
    \/ u.line_end < 1
    \/ u.line_start > Len(ls)
    \/ u.line_end > Len(ls)

StartAfterEnd(u) == u.line_start > u.line_end

\* the range is in the file and the text of its lines is not old_content
TextDiffers(ls, u) ==
    /\ ~RangeOutsideFile(ls, u)
    /\ ~StartAfterEnd(u)
    /\ NormaliseLineEndings(join(SubSeq(ls, u.line_start, u.line_end), Newline))
           # NormaliseLineEndings(u.old_content)

\* the loop is about to validate the update u
Validating(u) ==
    /\ ppc = "applying"
    /\ applied_updates < Len(sorted_updates)
    /\ u = sorted_updates[applied_updates + 1]

Failed == returned.some /\ ~returned.val.ok

\* C23: when the update the loop validates has a range outside the file, a
\* start after its end, or an old_content that differs (CRLF taken as LF)
\* from the current text of its lines, the call returns an error at that
\* step, "Content mismatch" for differing text; and a call that has returned
\* an error has left the file as it was and written no backup, also when
\* earlier updates of the same file validated.
C23_BadUpdateIsRefused ==
    [][\A u \in LineUpdates :
          /\ (Validating(u) /\ (RangeOutsideFile(lines, u) \/ StartAfterEnd(u)
                                    \/ TextDiffers(lines, u)))
                 => Failed'
          /\ (Validating(u) /\ TextDiffers(lines, u))
                 => (Failed' /\ returned'.val.error = "Content mismatch")
          /\ Failed' => fs' = fs_before]_vars

\* the update names lines of the file and expects the text they have
FitsOriginal(ls, u) ==
    /\ 1 <= u.line_start
    /\ u.line_start <= u.line_end
    /\ u.line_end <= Len(ls)
    /\ NormaliseLineEndings(u.old_content)
           = join(SubSeq(ls, u.line_start, u.line_end), Newline)

PairwiseDisjoint(updates) ==
    \A i, j \in 1..Len(updates) :
        i # j => \/ updates[i].line_end < updates[j].line_start
                 \/ updates[j].line_end < updates[i].line_start

\* the lines of the original from line i on, each range replaced by the
\* lines of its new_content
RECURSIVE ReplacedFrom(_, _, _)
ReplacedFrom(ls, updates, i) ==
    IF i > Len(ls) THEN <<>>
    ELSE IF \E k \in 1..Len(updates) : updates[k].line_start = i
    THEN LET k == CHOOSE k \in 1..Len(updates) : updates[k].line_start = i
         IN  str_lines(updates[k].new_content)
                 \o ReplacedFrom(ls, updates, updates[k].line_end + 1)
    ELSE <<ls[i]>> \o ReplacedFrom(ls, updates, i + 1)

\* the lines a run leaves when the sorted updates from the i-th on are
\* applied one after the other (all of them validate)
RECURSIVE LinesAfter(_, _, _)
LinesAfter(ls, sorted, i) ==
    IF i > Len(sorted) THEN ls
    ELSE LinesAfter(validate_and_apply_update(ls, sorted[i]).lines, sorted, i + 1)

Reversed(s) == [i \in 1..Len(s) |-> s[Len(s) + 1 - i]]

OriginalLines == str_lines(fs_before.files[file_update.path].val)

\* a request of updates with pairwise disjoint ranges that fit the original
DisjointFittingRequest ==
    /\ exists(fs_before, file_update.path)
    /\ PairwiseDisjoint(file_update.updates)
    /\ \A k \in 1..Len(file_update.updates) :
          FitsOriginal(OriginalLines, file_update.updates[k])

\* C24: for updates with pairwise disjoint line ranges whose old_content is
\* the text of those lines in the original file, every update succeeds, the
\* result is what the request with its updates listed the other way round
\* gives, and the file written has the lines of the original with each range
\* replaced by the lines of its new_content, whatever their number.
C24_DisjointUpdatesCommute ==
    (ppc = "done" /\ DisjointFittingRequest)
        => /\ returned = Ok(Len(file_update.updates))
           /\ lines = LinesAfter(OriginalLines,
                                 sort_by_line_start_descending(
                                     Reversed(file_update.updates)), 1)
           /\ lines = ReplacedFrom(OriginalLines, file_update.updates, 1)
           /\ ~dry_run =>
                 str_lines(fs.files[file_update.path].val)
                     = ReplacedFrom(OriginalLines, file_update.updates, 1)

\* the bundle has a piece of the kind for the file
HasPiece(bundle, kind, f) ==
    \E i \in 1..Len(bundle) : bundle[i] = Piece(kind, f)

Listed(f) == \E k \in 1..Len(files) : files[k] = f

\* C25: concatenate_files returns a bundle also when a listed file cannot be
\* read: the bundle has a section for that file with an "Error reading file"
\* marker, and the section and content of every readable file of the list,
\* before or after it, are there.
C25_UnreadableFileIsMarked ==
    rpc \in {"core", "file_processor"}
        => \A f \in FileNames :
              Listed(f) =>
                  /\ HasPiece(output, "heading", f)
                  /\ f \in unreadable => HasPiece(output, "error marker", f)
                  /\ f \notin unreadable =>
                        \/ HasPiece(output, "content", f)
                        \/ HasPiece(output, "processed content", f)

\* C26: matches_path returns a boolean, without panicking, for every pattern
\* list and every path, paths with multi-byte characters among them: the glob
\* engine never slices the path off a character boundary.
C26_MatchesPathNeverPanics ==
    Done => result \in {"true", "false"}

\* C27: collect_files returns every admitted file at most once, whatever the
\* list of roots, also when it names a directory and a file inside it.
C27_NoFileCollectedTwice ==
    \A i, j \in 1..Len(all_files) : i # j => all_files[i] # all_files[j]

\* the two directory roots hold the same file script.py, same size and
\* content, and both can be listed
TwinRoots ==
    /\ paths = <<Path_r_src, Path_r_build>>
    /\ tree[5].listable
    /\ tree[8].listable
    /\ tree[6] = tree[9]

\* C28: whether collect_files admits a file found under a directory root
\* depends only on its path relative to the root, its size and its content:
\* the same file is admitted under both roots or under neither, also when one
\* root is named like a built-in skip-list entry (build).
C28_RootLocationIsIrrelevant ==
    (cpc = "returned" /\ TwinRoots)
        => (Path_r_src_script_py \in Collected
               <=> Path_r_build_script_py \in Collected)

\* a is at least b, as numbers
AtLeast(a, b) == a.hi > b.hi \/ (a.hi = b.hi /\ a.lo >= b.lo)

\* what a limit of 1 MiB admits: a file that passes the matchers and the
\* sniff and has at most 1024 * 1024 bytes
AdmittedUnderOneMiB(e) ==
    /\ NotExcluded(e)
    /\ IsIncluded(e)
    /\ SniffedAsText(e)
    /\ tree[e].stat = "ok"
    /\ 0 < ContentLen(tree[e].content)
    /\ ContentLen(tree[e].content) <= 1024 * 1024

\* C29: max_size_mb * 1024 * 1024 never overflows 64 bits, so the call gets
\* past it for every max_size_mb and the limit is monotonic: a file that a
\* limit of 1 admits is in the result of every run with a limit of at least 1.
C29_SizeLimitIsMonotonic ==
    /\ cpc # "overflowed"
    /\ (cpc = "returned" /\ AtLeast(max_size_mb, U64(0, 1)))
          => \A e \in Examined :
                AdmittedUnderOneMiB(e) => Entries[e].path \in Collected

\* text with every occurrence of old replaced by new, the occurrences taken
\* from the left and not overlapping; an empty old occurs before every
\* character and at the end
RECURSIVE EveryOccurrenceReplaced(_, _, _)
EveryOccurrenceReplaced(text, old, new) ==
    IF old = <<>>
    THEN new \o (IF text = <<>> THEN <<>>
                 ELSE <<Head(text)>>
                          \o EveryOccurrenceReplaced(Tail(text), old, new))
    ELSE IF Len(text) < Len(old) THEN text
    ELSE IF SubSeq(text, 1, Len(old)) = old
         THEN new \o EveryOccurrenceReplaced(
                         SubSeq(text, Len(old) + 1, Len(text)), old, new)
         ELSE <<Head(text)>> \o EveryOccurrenceReplaced(Tail(text), old, new)

Occurs(text, old) ==
    \E i \in 0..(Len(text) - Len(old)) : SubSeq(text, i + 1, i + Len(old)) = old

\* the text after the first k updates, in list order
RECURSIVE AfterFirst(_, _, _)
AfterFirst(text, updates, k) ==
    IF k = 0 THEN text
    ELSE EveryOccurrenceReplaced(AfterFirst(text, updates, k - 1),
                                 updates[k].old_content, updates[k].new_content)

\* every update finds its old_content in the text the ones before it left
AllFound(text, updates) ==
    \A k \in 1..Len(updates) :
        Occurs(AfterFirst(text, updates, k - 1), updates[k].old_content)

\* the request updates a file that exists
UpdatesExistingFile ==
    /\ ppc # "idle"
    /\ ~is_file_creation(file_update)
    /\ exists(fs_before, file_update.path)

OriginalContent == fs_before.files[file_update.path]

\* C30: patching an existing file is all-or-nothing.  The in-memory copy is
\* the original with the updates so far applied in list order, each to every
\* occurrence of its old_content in the text the ones before it left; the
\* call fails exactly when some update does not find its old_content, and
\* then neither the file nor a .backup is written; the file system changes
\* only after all updates succeeded: first the backup, when asked for, holding
\* the original content, and then the file.
C30_PatchIsAllOrNothing ==
    UpdatesExistingFile =>
        /\ ppc \in {"applying", "backed up"} =>
              updated_content
                  = AfterFirst(OriginalContent.val, file_update.updates,
                               applied_updates)
        /\ ppc = "done" =>
              (returned.val.ok <=> AllFound(OriginalContent.val, file_update.updates))
        /\ (ppc = "done" /\ ~returned.val.ok) => fs = fs_before
        /\ fs # fs_before =>
              /\ ~dry_run
              /\ applied_updates = Len(file_update.updates)
              /\ AllFound(OriginalContent.val, file_update.updates)
        /\ ppc = "backed up" =>
              /\ fs.files[backup_path(file_update.path)] = OriginalContent
              /\ fs.files[file_update.path] = OriginalContent
        /\ (ppc = "done" /\ returned.val.ok /\ ~dry_run) =>
              /\ fs.files[file_update.path]
                    = Some(AfterFirst(OriginalContent.val, file_update.updates,
                                      Len(file_update.updates)))
              /\ fs.files[backup_path(file_update.path)]
                    = IF create_backup THEN OriginalContent
                      ELSE fs_before.files[backup_path(file_update.path)]
              /\ fs.dirs = fs_before.dirs

\* the file aba was patched with ab -> a, then a -> b (twice in the text aa
\* the first update left), after its backup
C30_Witness ==
    /\ UpdatesExistingFile
    /\ ppc = "done"
    /\ create_backup
    /\ OriginalContent = Some(<<"a", "b", "a">>)
    /\ file_update.updates
          = <<[old_content |-> <<"a", "b">>, new_content |-> <<"a">>],
              [old_content |-> <<"a">>, new_content |-> <<"b">>]>>
    /\ returned = Ok(2)
    /\ fs.files[file_update.path] = Some(<<"b", "b">>)
    /\ fs.files[backup_path(file_update.path)] = Some(<<"a", "b", "a">>)

====
